---- MODULE Spec2Model ----
(***************************************************************************)
(* A state-machine model of the WebCAMO Windows receiver:                  *)
(*   - FrameBuffer      (src/windows/src/FrameBuffer.cpp)                  *)
(*   - SignalingClient  (src/windows/src/SignalingClient.cpp)              *)
(*   - the frame codec of SignalingClient (WriteFrame, ReadFrame)          *)
(*   - Connect and the handshake of SignalingClient                        *)
(*   - Application, VirtualCamera (src/windows/src/VirtualCamera.cpp) and  *)
(*     the filter that reads the shared region                             *)
(*   - SimpleReceiver   (src/windows/src/SimpleReceiver.cpp)              *)
(* Each component has its own specification (SpecFB, SpecSC, SpecTX,       *)
(* SpecWriteFrame, SpecReadFrame, SpecConnect, SpecApplication,            *)
(* SpecCamera, SpecLifecycle, FairSpecLifecycle, SpecAnswer,               *)
(* SpecReceiving, SpecSimpleReceiver); the variables of the other          *)
(* components stay at their initial value.                                 *)
(***************************************************************************)
EXTENDS Integers, Sequences, FiniteSets, TLC

(***************************************************************************)
(* Bounds of the model.                                                    *)
(***************************************************************************)
\* frames are numbered 1..MaxPush in the order Push inserts them
MaxPush == 3
\* the constructor argument maxFrames ranges over 0..MaxCapacity
MaxCapacity == 2
\* the timeoutMs argument of Pop ranges over 0..MaxTimeout (clock ticks)
MaxTimeout == 1
\* Connect and Disconnect are called at most MaxCalls times on one session
MaxCalls == 3
\* the peer frames at most MaxMessages messages
MaxMessages == 2
\* SendAnswer and SendIceCandidate are called at most MaxSends times
MaxSends == 2
\* payloads of every length 0..MaxLen over PayloadBytes are encoded
MaxLen == 3
\* RunLoop calls ReadFrame at most MaxReads times on one stream
MaxReads == 3
\* the memcpy of the pixels is made of PixelWords stores (or loads)
PixelWords == 2
\* Application::Connect is called at most MaxSessions times
MaxSessions == 2
\* at most MaxClients clients connect to SimpleReceiver
MaxClients == 2

Producers == {"p1", "p2"}
Consumers == {"c1", "c2"}
Threads   == Producers \cup Consumers
Senders   == {"s1", "s2"}
NoThread  == "nobody"
NoFrame   == 0
Timeouts  == 0..MaxTimeout

VARIABLES
  \* ---- FrameBuffer ----
  m_frames,     \* std::queue<VideoFrame>: sequence of frame ids, front first
  m_maxFrames,  \* size_t m_maxFrames
  m_mutex,      \* the thread holding m_mutex, or NoThread
  notified,     \* waiters of m_condition unblocked by notify_one, not yet resumed
  pc,           \* position of every thread inside a FrameBuffer operation
  pushing,      \* per producer: the frame argument of the Push in progress
  entry,        \* per producer: m_frames as the Push in progress found it
  frame,        \* per consumer: the caller's VideoFrame& output argument
  ret,          \* per consumer: outcome of the last Pop/Peek call
  timeoutMs,    \* per consumer: the timeoutMs argument of the Pop in progress
  elapsed,      \* per consumer: ticks the Pop in progress has waited
  nextId,       \* id of the next frame a producer pushes
  poppedSeq,    \* history: frames returned by Pop, in return order
  dropped,      \* history: frames removed unreturned, by Push's eviction or by Clear
  \* ---- SignalingClient ----
  m_state,      \* std::atomic<ConnectionState> m_state
  m_socket,     \* SOCKET m_socket: a handle, or INVALID_SOCKET
  m_running,    \* std::atomic<bool> m_running
  m_thread,     \* std::thread m_thread: TRUE when joinable
  appPc,        \* position of the thread calling Connect / Disconnect
  loopPc,       \* position of the receive thread inside RunLoop
  openSockets,  \* handles the process has opened and not closed
  nextSocket,   \* the handle the next socket() call returns
  stateLog,     \* history: states passed to m_stateCallback, in call order
  calls,        \* number of Connect / Disconnect calls made so far
  terminated,   \* std::terminate was called
  peerOpen,     \* the peer has not closed the stream of the current socket
  inbox,        \* bytes that have arrived at the current socket, not yet read
  delivered,    \* history: messages passed to OnMessage, in call order
  connectRet,   \* what the last Connect returned ("none" until it returns)
  spawned,      \* number of receive threads started so far
  inflight,     \* bytes the peer has written that have not arrived yet
  framed,       \* history: messages the peer framed, in wire order
  payloadLen,   \* ReadFrame's payloadLen
  payload,      \* ReadFrame's payload, as far as it has been received
  readFailed,   \* a recv of the running receive thread returned <= 0
  recvSocket,   \* the handle the receive thread's recv call was given
  m_sendMutex,  \* the thread holding m_sendMutex, or NoThread
  sendPc,       \* per sender: position inside Send
  sendFrame,    \* per sender: number of the frame its Send writes
  sendSocket,   \* per sender: the handle its send() call was given
  sendChunk,    \* per sender: pieces of its frame the transport has taken
  nextSend,     \* number of the next frame a Send writes
  sent,         \* history: <<frame, piece>> in the order the transport took them
  \* ---- SignalingClient::WriteFrame ----
  data,         \* const std::string &data: the payload, a sequence of bytes
  encoded,      \* std::vector<unsigned char> frame, as built so far
  wfPc,         \* position inside WriteFrame
  \* ---- SignalingClient::ReadFrame ----
  wire,         \* bytes the peer has written that have not arrived yet
  arrived,      \* bytes that have arrived at the socket, not yet read
  wireOpen,     \* the connection is not lost
  sentFrame,    \* history: the frame the peer wrote and what it is made of
  rfPc,         \* position inside ReadFrame
  rfLen,        \* ReadFrame's payloadLen
  rfPayload,    \* ReadFrame's payload: the totalReceived bytes received
  rfRet,        \* what the last ReadFrame call returned
  handled,      \* history: the messages RunLoop passed to OnMessage
  rfCalls,      \* number of ReadFrame calls made so far
  \* ---- SignalingClient::Connect / PerformHandshake ----
  url,          \* const std::string &url, a sequence of characters
  room,         \* const std::string &room, a sequence of characters
  address,      \* history: the parts the url was written from
  peerResponse, \* what the peer answers to the upgrade request
  host,         \* Connect's host
  port,         \* Connect's port
  path,         \* Connect's path
  cxPc,         \* position inside Connect
  target,       \* the host and port ConnectSocket was called with
  request,      \* the request PerformHandshake built: its path and Host header
  buffer,       \* PerformHandshake's buffer, the received characters
  cxSocket,     \* the transport: "none", "open" or "closed"
  cxState,      \* the state Connect has set
  cxRet,        \* what Connect returned ("none" until it returns)
  \* ---- Application, VirtualCamera, the filter ----
  vcRunning,    \* VirtualCamera::m_running
  vcPc,         \* position of the FrameLoop thread ("none": no thread)
  written,      \* pieces of the pixels PushFrame's memcpy has stored
  regionExists, \* m_sharedMemoryPtr and m_frameEvent are set
  region,       \* the shared memory region: header and pixels
  frameEvent,   \* the auto-reset event is signaled
  signals,      \* history: the frames SetEvent was called for, in call order
  ftPc,         \* position of the filter inside GenerateFrame
  ftBuf,        \* the filter's pData, as far as memcpy has filled it
  ftOut,        \* the buffer the filter delivered as a frame last
  apPc,         \* position of the thread calling Application::Disconnect
  connected,    \* a relay session is connected
  session,      \* number of relay sessions begun so far
  firstFrame,   \* history: the number of the first frame of this session
  staleFrames,   \* history: frames FrameLoop popped in a later session than
                \* the one they were pushed in
  \* ---- SimpleReceiver and its clients ----
  receiver,     \* the SimpleReceiver object: m_running, the two sockets, the two threads
  srPc,         \* position of the thread calling Start / Stop
  srCalls,      \* number of Start / Stop calls made so far
  acceptPc,     \* position of the accept thread ("none": no thread)
  client,       \* AcceptLoop's client
  rx,           \* per receive thread: its position and the locals of ReceiveLoop
  srOpen,       \* socket handles that are open
  srNext,       \* the handle the next socket() / accept() returns
  conn,         \* the connections accepted so far, in order
  pending,      \* the connections waiting on the listening socket
  srLog,        \* history: the m_stateCallback calls, in call order
  srPushed,     \* history: the Push calls of the receive loops, in call order
  srTerminated,  \* std::terminate was called
  \* ---- the calls of the UI thread and the handles of VirtualCamera ----
  todo,         \* the calls the UI thread has still to make inside the current operation
  uiCalls,      \* number of Connect / Disconnect / Shutdown operations begun so far
  hasClient,    \* Application::m_signalingClient is set
  notice,       \* the state of the last notification the state callback has handled
  handles,      \* m_sharedMemoryHandle, m_sharedMemoryPtr and m_frameEvent (0: nullptr)
  openHandles,  \* the mapping, view and event handles that are open
  handleNext,   \* the handle the next Create / MapViewOfFile returns
  started,      \* history: how the last CreateSharedMemory of Start ended
  stopPops,     \* history: Pop calls FrameLoop began since m_running was cleared
  vcTerminated, \* m_thread was assigned while joinable (std::terminate)
  destroyed,     \* the VirtualCamera object was destructed
  \* ---- Application::OnSignalingMessage and the clients it answers through ----
  clientPtr,    \* Application::m_signalingClient: the client it points to (0: nullptr)
  clients,      \* per SignalingClient made: m_socket, m_running, its receive thread
  anPc,         \* position of the UI thread inside Application::Connect / Disconnect
  anOld,        \* the client whose Disconnect the UI thread is running (0: none)
  anMade,       \* number of SignalingClient objects made so far
  anSockets,    \* the transports that are open (client c connects transport c)
  offers        \* history: the messages delivered to OnSignalingMessage and their answers

fbVars == <<m_frames, m_maxFrames, m_mutex, notified, pc, pushing, entry, frame,
            ret, timeoutMs, elapsed, nextId, poppedSeq, dropped>>

sessionVars == <<m_state, m_socket, m_running, m_thread, appPc, loopPc,
                 openSockets, nextSocket, stateLog, calls, terminated, peerOpen,
                 inbox, delivered, connectRet, spawned, inflight, framed,
                 payloadLen, payload, readFailed, recvSocket>>

txVars == <<m_sendMutex, sendPc, sendFrame, sendSocket, sendChunk, nextSend,
            sent>>

scVars == <<sessionVars, txVars>>

wfVars == <<data, encoded, wfPc>>

rfVars == <<wire, arrived, wireOpen, sentFrame, rfPc, rfLen, rfPayload, rfRet,
            handled, rfCalls>>

cxVars == <<url, room, address, peerResponse, host, port, path, cxPc, target,
            request, buffer, cxSocket, cxState, cxRet>>

vcVars == <<vcRunning, vcPc, written, regionExists, region, frameEvent,
            signals, ftPc, ftBuf, ftOut, apPc, connected, session, firstFrame,
            staleFrames>>

srVars == <<receiver, srPc, srCalls, acceptPc, client, rx, srOpen, srNext,
            conn, pending, srLog, srPushed, srTerminated>>

lcVars == <<todo, uiCalls, hasClient, notice, handles, openHandles,
            handleNext, started, stopPops, vcTerminated, destroyed>>

anVars == <<clientPtr, clients, anPc, anOld, anMade, anSockets, offers>>

extVars == <<wfVars, rfVars, cxVars, vcVars, srVars, lcVars, anVars>>

\* what a step of WriteFrame / of ReadFrame and its stream / of Connect /
\* of the camera / of the camera and the frame channel leaves alone
othersOfWf == <<fbVars, scVars, rfVars, cxVars, vcVars, srVars, lcVars, anVars>>
othersOfRf == <<fbVars, scVars, wfVars, cxVars, vcVars, srVars, lcVars, anVars>>
othersOfCx == <<fbVars, scVars, wfVars, rfVars, vcVars, srVars, lcVars, anVars>>
othersOfVc == <<fbVars, scVars, wfVars, rfVars, cxVars, srVars, lcVars, anVars>>
othersOfCamera == <<scVars, wfVars, rfVars, cxVars, srVars, lcVars, anVars>>

othersOfSr == <<fbVars, scVars, wfVars, rfVars, cxVars, vcVars, lcVars, anVars>>

\* what a Push of the receive loop leaves alone
othersOfSrPush == <<scVars, wfVars, rfVars, cxVars, vcVars, lcVars, anVars>>

\* what a step of the UI thread or of the camera's life cycle leaves alone
othersOfLifecycle == <<fbVars, scVars, wfVars, rfVars, cxVars, srVars, anVars>>

othersOfAn == <<fbVars, scVars, wfVars, rfVars, cxVars, vcVars, srVars, lcVars>>

vars == <<fbVars, scVars, extVars>>

(***************************************************************************)
(* FrameBuffer                                                             *)
(***************************************************************************)

\* FrameBuffer::FrameBuffer(size_t maxFrames): any size_t is accepted
Capacities == 0..MaxCapacity

\* (mutation of IsFull: the guard written with > instead of >=)
IsFullOffByOne(q) == Len(q) > m_maxFrames

\* the loop guard of Push: m_frames.size() >= m_maxFrames
IsFull(q) == Len(q) >= m_maxFrames

\* (mutation of Front: Pop reads the newest element, as the header comment
\* "Get the latest frame" would suggest)
FrontAsBack(q) == q[Len(q)]

\* m_frames.front()
Front(q) == q[1]

\* (mutation of Back: Peek reads the oldest element)
BackAsFront(q) == q[1]

\* m_frames.back()
Back(q) == q[Len(q)]

\* m_frames.pop(): std::queue removes the front element
PopFront(q) == Tail(q)

\* the predicate of Pop's wait_for: !m_frames.empty()
WaitPred(q) == q # <<>>

\* consumers blocked inside m_condition.wait_for that no notify has unblocked yet
Waiters == {c \in Consumers : pc[c] = "waiting" /\ c \notin notified}

\* (mutation of NotifyOne: notify_all)
NotifyAll(after) == after = notified \cup Waiters

\* (mutation of NotifyOne: the notification is forgotten)
NotifyNobody(after) == after = notified

\* m_condition.notify_one(): unblocks one blocked waiter, if there is one
NotifyOne(after) ==
  IF Waiters = {} THEN after = notified
  ELSE \E c \in Waiters : after = notified \cup {c}

FrameBufferInit ==
  /\ m_frames = <<>>
  /\ m_maxFrames \in Capacities
  /\ m_mutex = NoThread
  /\ notified = {}
  /\ pc = [t \in Threads |-> "idle"]
  /\ pushing = [p \in Producers |-> NoFrame]
  /\ entry = [p \in Producers |-> <<>>]
  /\ frame = [c \in Consumers |-> NoFrame]
  /\ ret = [c \in Consumers |-> "none"]
  /\ timeoutMs = [c \in Consumers |-> 0]
  /\ elapsed = [c \in Consumers |-> 0]
  /\ nextId = 1
  /\ poppedSeq = <<>>
  /\ dropped = {}

\* Push, line 10/22: std::lock_guard lock(m_mutex)
PushLock(p) ==
  /\ pc[p] = "idle"
  /\ m_mutex = NoThread
  /\ nextId <= MaxPush
  /\ m_mutex' = p
  /\ pc' = [pc EXCEPT ![p] = "evict"]
  /\ pushing' = [pushing EXCEPT ![p] = nextId]
  /\ entry' = [entry EXCEPT ![p] = m_frames]
  /\ nextId' = nextId + 1
  /\ UNCHANGED <<m_frames, m_maxFrames, notified, frame, ret, timeoutMs,
                 elapsed, poppedSeq, dropped>>

\* Push, lines 13-15/24-26: one iteration of while (size() >= m_maxFrames) pop().
\* pop() on an empty std::queue is undefined: the build either aborts in the
\* container's checked pop ("aborted") or lets the size wrap and goes on
\* looping with the lock held ("spinning"; size_t >= 0 never becomes false).
PushEvict(p) ==
  /\ pc[p] = "evict"
  /\ m_mutex = p
  /\ IsFull(m_frames)
  /\ IF m_frames # <<>>
       THEN /\ m_frames' = PopFront(m_frames)
            /\ dropped' = dropped \cup {Front(m_frames)}
            /\ pc' = pc
       ELSE /\ \E outcome \in {"aborted", "spinning"} :
                 pc' = [pc EXCEPT ![p] = outcome]
            /\ UNCHANGED <<m_frames, dropped>>
  /\ UNCHANGED <<m_maxFrames, m_mutex, notified, pushing, entry, frame, ret,
                 timeoutMs, elapsed, nextId, poppedSeq>>

\* Push, lines 17-19/28-30: m_frames.push(frame); notify_one(); unlock
PushInsert(p) ==
  /\ pc[p] = "evict"
  /\ m_mutex = p
  /\ ~IsFull(m_frames)
  /\ m_frames' = Append(m_frames, pushing[p])
  /\ NotifyOne(notified')
  /\ m_mutex' = NoThread
  /\ pc' = [pc EXCEPT ![p] = "idle"]
  /\ pushing' = [pushing EXCEPT ![p] = NoFrame]
  /\ entry' = [entry EXCEPT ![p] = <<>>]
  /\ UNCHANGED <<m_maxFrames, frame, ret, timeoutMs, elapsed, nextId,
                 poppedSeq, dropped>>

\* Pop, lines 37-39: frame = std::move(m_frames.front()); m_frames.pop(); return true
PopTake(c) ==
  /\ frame' = [frame EXCEPT ![c] = Front(m_frames)]
  /\ m_frames' = PopFront(m_frames)
  /\ poppedSeq' = Append(poppedSeq, Front(m_frames))
  /\ ret' = [ret EXCEPT ![c] = "pop_true"]
  /\ pc' = [pc EXCEPT ![c] = "idle"]
  /\ notified' = notified \ {c}
  /\ timeoutMs' = [timeoutMs EXCEPT ![c] = 0]
  /\ elapsed' = [elapsed EXCEPT ![c] = 0]

\* Pop, lines 33-36: lock, then wait_for evaluates the predicate first; when it
\* is false the thread blocks and releases the mutex
PopCall(c, t) ==
  /\ pc[c] = "idle"
  /\ m_mutex = NoThread
  /\ IF WaitPred(m_frames)
       THEN PopTake(c)
       ELSE /\ pc' = [pc EXCEPT ![c] = "waiting"]
            /\ ret' = [ret EXCEPT ![c] = "none"]
            /\ timeoutMs' = [timeoutMs EXCEPT ![c] = t]
            /\ elapsed' = [elapsed EXCEPT ![c] = 0]
            /\ UNCHANGED <<m_frames, frame, poppedSeq, notified>>
  /\ UNCHANGED <<m_maxFrames, m_mutex, pushing, entry, nextId, dropped>>

\* Pop, line 35: the wait is over by notify_one or spuriously, before the
\* deadline; the thread re-acquires the mutex and re-evaluates the predicate
PopWake(c) ==
  /\ pc[c] = "waiting"
  /\ m_mutex = NoThread
  /\ elapsed[c] < timeoutMs[c]
  /\ IF WaitPred(m_frames)
       THEN PopTake(c)
       ELSE /\ notified' = notified \ {c}
            /\ UNCHANGED <<m_frames, frame, poppedSeq, ret, pc, timeoutMs, elapsed>>
  /\ UNCHANGED <<m_maxFrames, m_mutex, pushing, entry, nextId, dropped>>

\* (mutation of TimedOut: the wait gives up without looking at the clock)
TimedOutAtOnce(c) == TRUE

\* (mutation of TimedOut: wait_for has no deadline)
TimedOutNever(c) == FALSE

\* the deadline of wait_for has passed
TimedOut(c) == elapsed[c] >= timeoutMs[c]

\* Pop, lines 35 and 42: the wait timed out; wait_for re-acquires the mutex and
\* returns the predicate's value
PopTimeout(c) ==
  /\ pc[c] = "waiting"
  /\ m_mutex = NoThread
  /\ TimedOut(c)
  /\ IF WaitPred(m_frames)
       THEN PopTake(c)
       ELSE /\ ret' = [ret EXCEPT ![c] = "pop_false"]
            /\ pc' = [pc EXCEPT ![c] = "idle"]
            /\ notified' = notified \ {c}
            /\ UNCHANGED <<m_frames, frame, poppedSeq, timeoutMs, elapsed>>
  /\ UNCHANGED <<m_maxFrames, m_mutex, pushing, entry, nextId, dropped>>

\* one clock tick passes for every Pop that is waiting
Tick ==
  /\ \E c \in Consumers : pc[c] = "waiting" /\ elapsed[c] < timeoutMs[c]
  /\ elapsed' = [c \in Consumers |->
                   IF pc[c] = "waiting" /\ elapsed[c] < timeoutMs[c]
                     THEN elapsed[c] + 1 ELSE elapsed[c]]
  /\ UNCHANGED <<m_frames, m_maxFrames, m_mutex, notified, pc, pushing, entry,
                 frame, ret, timeoutMs, nextId, poppedSeq, dropped>>

\* Peek, lines 45-54
Peek(c) ==
  /\ pc[c] = "idle"
  /\ m_mutex = NoThread
  /\ IF m_frames = <<>>
       THEN /\ ret' = [ret EXCEPT ![c] = "peek_false"]
            /\ frame' = frame
       ELSE /\ frame' = [frame EXCEPT ![c] = Back(m_frames)]
            /\ ret' = [ret EXCEPT ![c] = "peek_true"]
  /\ UNCHANGED <<m_frames, m_maxFrames, m_mutex, notified, pc, pushing, entry,
                 timeoutMs, elapsed, nextId, poppedSeq, dropped>>

\* what Clear's loop leaves in the queue: while (!empty()) pop()
RECURSIVE Drain(_)
Drain(q) == IF q # <<>> THEN Drain(PopFront(q)) ELSE q

\* Clear, lines 56-61
Clear(t) ==
  /\ pc[t] = "idle"
  /\ m_mutex = NoThread
  /\ m_frames # <<>>
  /\ m_frames' = Drain(m_frames)
  /\ dropped' = dropped \cup {m_frames[i] : i \in 1..Len(m_frames)}
  /\ UNCHANGED <<m_maxFrames, m_mutex, notified, pc, pushing, entry, frame, ret,
                 timeoutMs, elapsed, nextId, poppedSeq>>

NextFB ==
  \/ (\E p \in Producers : PushLock(p)) /\ UNCHANGED <<scVars, extVars>>
  \/ (\E p \in Producers : PushEvict(p)) /\ UNCHANGED <<scVars, extVars>>
  \/ (\E p \in Producers : PushInsert(p)) /\ UNCHANGED <<scVars, extVars>>
  \/ (\E c \in Consumers : \E t \in Timeouts : PopCall(c, t)) /\ UNCHANGED <<scVars, extVars>>
  \/ (\E c \in Consumers : PopWake(c)) /\ UNCHANGED <<scVars, extVars>>
  \/ (\E c \in Consumers : PopTimeout(c)) /\ UNCHANGED <<scVars, extVars>>
  \/ Tick /\ UNCHANGED <<scVars, extVars>>
  \/ (\E c \in Consumers : Peek(c)) /\ UNCHANGED <<scVars, extVars>>
  \/ (\E t \in Producers : Clear(t)) /\ UNCHANGED <<scVars, extVars>>

(***************************************************************************)
(* SignalingClient                                                         *)
(***************************************************************************)

\* enum class ConnectionState
ConnectionState == {"Disconnected", "Connecting", "Connected", "Error"}

\* the handle value no open socket has
INVALID_SOCKET == 0

\* what getaddrinfo / socket / connect can do inside ConnectSocket
SocketOutcomes == {"resolve_failed", "socket_failed", "connect_failed", "ok"}

\* what send / recv / the status-line test can do inside PerformHandshake
HandshakeOutcomes == {"send_failed", "recv_failed", "rejected", "ok"}

\* a mis-typed variant: Disconnect reports Error
DisconnectedStateAsError == "Error"

\* the state Disconnect reports
DisconnectedState == "Disconnected"

Min(a, b) == IF a < b THEN a ELSE b

\* n zero bytes: what std::string::resize appends
Zeros(n) == [i \in 1..n |-> 0]

\* a server-to-client text frame as ReadFrame expects it: 0x81, a 7-bit
\* length without mask bit, the payload (payloads here are shorter than 126)
ServerFrame(message) == <<129, Len(message)>> \o message

\* header[1] & 0x7F
PayloadLen(header) == header[2] % 128

SignalingClientInit ==
  /\ m_state = "Disconnected"
  /\ m_socket = INVALID_SOCKET
  /\ m_running = FALSE
  /\ m_thread = FALSE
  /\ appPc = "idle"
  /\ loopPc = "none"
  /\ openSockets = {}
  /\ nextSocket = 1
  /\ stateLog = <<>>
  /\ calls = 0
  /\ terminated = FALSE
  /\ peerOpen = FALSE
  /\ inbox = <<>>
  /\ delivered = <<>>
  /\ connectRet = "none"
  /\ spawned = 0
  /\ inflight = <<>>
  /\ framed = <<>>
  /\ payloadLen = 0
  /\ payload = <<>>
  /\ readFailed = FALSE
  /\ recvSocket = INVALID_SOCKET
  /\ m_sendMutex = NoThread
  /\ sendPc = [s \in Senders |-> "idle"]
  /\ sendFrame = [s \in Senders |-> 0]
  /\ sendSocket = [s \in Senders |-> INVALID_SOCKET]
  /\ sendChunk = [s \in Senders |-> 0]
  /\ nextSend = 1
  /\ sent = <<>>

\* SetState: store the state, then call m_stateCallback with it
SetState(state) ==
  /\ m_state' = state
  /\ stateLog' = Append(stateLog, state)

\* Connect up to the end of ConnectSocket.  A failure returns false from
\* Connect after SetState(Error); success leaves the new handle in m_socket
\* whatever m_socket held before.
ConnectSocket(outcome) ==
  /\ appPc = "idle"
  /\ ~terminated
  /\ calls < MaxCalls
  /\ calls' = calls + 1
  /\ CASE outcome = "resolve_failed" ->
            /\ SetState("Error")
            /\ connectRet' = "false"
            /\ UNCHANGED <<m_socket, openSockets, nextSocket, appPc, peerOpen,
                           inbox, inflight>>
       [] outcome = "socket_failed" ->
            /\ m_socket' = INVALID_SOCKET
            /\ SetState("Error")
            /\ connectRet' = "false"
            /\ UNCHANGED <<openSockets, nextSocket, appPc, peerOpen, inbox,
                           inflight>>
       [] outcome = "connect_failed" ->
            /\ m_socket' = INVALID_SOCKET
            /\ SetState("Error")
            /\ connectRet' = "false"
            /\ UNCHANGED <<openSockets, nextSocket, appPc, peerOpen, inbox,
                           inflight>>
       [] outcome = "ok" ->
            /\ m_socket' = nextSocket
            /\ openSockets' = openSockets \cup {nextSocket}
            /\ nextSocket' = nextSocket + 1
            /\ peerOpen' = TRUE
            /\ inbox' = <<>>
            /\ inflight' = <<>>
            /\ appPc' = "handshake"
            /\ connectRet' = "none"
            /\ UNCHANGED <<m_state, stateLog>>
  /\ UNCHANGED <<m_running, m_thread, loopPc, terminated, delivered, spawned,
                 framed, payloadLen, payload, readFailed, recvSocket>>

\* Connect from PerformHandshake to SetState(Connected), or to the failure
\* return: closesocket, m_socket = INVALID_SOCKET, SetState(Error)
PerformHandshake(outcome) ==
  /\ appPc = "handshake"
  /\ ~terminated
  /\ IF outcome = "ok"
       THEN /\ SetState("Connected")
            /\ appPc' = "start"
            /\ UNCHANGED <<m_socket, openSockets, peerOpen, inbox, inflight,
                           connectRet>>
       ELSE /\ openSockets' = openSockets \ {m_socket}
            /\ m_socket' = INVALID_SOCKET
            /\ peerOpen' = FALSE
            /\ inbox' = <<>>
            /\ inflight' = <<>>
            /\ SetState("Error")
            /\ connectRet' = "false"
            /\ appPc' = "idle"
  /\ UNCHANGED <<m_running, m_thread, loopPc, nextSocket, calls, terminated,
                 delivered, spawned, framed, payloadLen, payload, readFailed, recvSocket>>

\* Connect's last two statements: m_running = true and the assignment of a
\* new std::thread to m_thread, which calls std::terminate when m_thread is
\* still joinable
StartThread ==
  /\ appPc = "start"
  /\ ~terminated
  /\ m_running' = TRUE
  /\ IF m_thread
       THEN /\ terminated' = TRUE
            /\ UNCHANGED <<m_thread, loopPc, spawned, connectRet, readFailed,
                           payloadLen, payload, recvSocket>>
       ELSE /\ m_thread' = TRUE
            /\ loopPc' = "check"
            /\ spawned' = spawned + 1
            /\ connectRet' = "true"
            /\ readFailed' = FALSE
            /\ payloadLen' = 0
            /\ payload' = <<>>
            /\ recvSocket' = INVALID_SOCKET
            /\ UNCHANGED terminated
  /\ appPc' = "idle"
  /\ UNCHANGED <<m_state, m_socket, openSockets, nextSocket, stateLog, calls,
                 peerOpen, inbox, delivered, inflight, framed>>

\* Disconnect: m_running = false
DisconnectStop ==
  /\ appPc = "idle"
  /\ ~terminated
  /\ calls < MaxCalls
  /\ calls' = calls + 1
  /\ m_running' = FALSE
  /\ appPc' = "close"
  /\ UNCHANGED <<m_state, m_socket, m_thread, loopPc, openSockets, nextSocket,
                 stateLog, terminated, peerOpen, inbox, delivered, connectRet,
                 spawned, inflight, framed, payloadLen, payload, readFailed, recvSocket>>

\* Disconnect: if (m_socket != INVALID_SOCKET) closesocket(m_socket)
DisconnectClose ==
  /\ appPc = "close"
  /\ ~terminated
  /\ IF m_socket # INVALID_SOCKET
       THEN /\ openSockets' = openSockets \ {m_socket}
            /\ peerOpen' = FALSE
            /\ inbox' = <<>>
            /\ inflight' = <<>>
            /\ appPc' = "invalidate"
       ELSE /\ appPc' = "join"
            /\ UNCHANGED <<openSockets, peerOpen, inbox, inflight>>
  /\ UNCHANGED <<m_state, m_socket, m_running, m_thread, loopPc, nextSocket,
                 stateLog, calls, terminated, delivered, connectRet, spawned,
                 framed, payloadLen, payload, readFailed, recvSocket>>

\* Disconnect: m_socket = INVALID_SOCKET
DisconnectInvalidate ==
  /\ appPc = "invalidate"
  /\ ~terminated
  /\ m_socket' = INVALID_SOCKET
  /\ appPc' = "join"
  /\ UNCHANGED <<m_state, m_running, m_thread, loopPc, openSockets, nextSocket,
                 stateLog, calls, terminated, peerOpen, inbox, delivered,
                 connectRet, spawned, inflight, framed, payloadLen, payload,
                 readFailed, recvSocket>>

\* a Disconnect that detaches the receive thread instead of joining it
DisconnectDetach ==
  /\ appPc = "join"
  /\ ~terminated
  /\ m_thread' = FALSE
  /\ appPc' = "notify"
  /\ UNCHANGED <<m_state, m_socket, m_running, loopPc, openSockets,
                 nextSocket, stateLog, calls, terminated, peerOpen, inbox,
                 delivered, connectRet, spawned, inflight, framed, payloadLen,
                 payload, readFailed, recvSocket>>

\* Disconnect: if (m_thread.joinable()) m_thread.join(), which returns once
\* RunLoop has returned
DisconnectJoin ==
  /\ appPc = "join"
  /\ ~terminated
  /\ m_thread => loopPc = "done"
  /\ m_thread' = FALSE
  /\ loopPc' = "none"
  /\ appPc' = "notify"
  /\ UNCHANGED <<m_state, m_socket, m_running, openSockets, nextSocket,
                 stateLog, calls, terminated, peerOpen, inbox, delivered,
                 connectRet, spawned, inflight, framed, payloadLen, payload,
                 readFailed, recvSocket>>

\* Disconnect: SetState(Disconnected), then return
DisconnectNotify ==
  /\ appPc = "notify"
  /\ ~terminated
  /\ SetState(DisconnectedState)
  /\ appPc' = "idle"
  /\ UNCHANGED <<m_socket, m_running, m_thread, loopPc, openSockets,
                 nextSocket, calls, terminated, peerOpen, inbox, delivered,
                 connectRet, spawned, inflight, framed, payloadLen, payload,
                 readFailed, recvSocket>>

\* RunLoop: the first operand of the while condition, m_running
LoopCheck ==
  /\ loopPc = "check"
  /\ ~terminated
  /\ loopPc' = IF m_running THEN "socket" ELSE "done"
  /\ UNCHANGED <<m_state, m_socket, m_running, m_thread, appPc, openSockets,
                 nextSocket, stateLog, calls, terminated, peerOpen, inbox,
                 delivered, connectRet, spawned, inflight, framed, payloadLen,
                 payload, readFailed, recvSocket>>

\* RunLoop: the second operand, m_socket != INVALID_SOCKET, and the entry of
\* ReadFrame, whose recv is called on the handle m_socket holds
LoopCheckSocket ==
  /\ loopPc = "socket"
  /\ ~terminated
  /\ IF m_socket # INVALID_SOCKET
       THEN loopPc' = "header" /\ recvSocket' = m_socket
       ELSE loopPc' = "done" /\ UNCHANGED recvSocket
  /\ UNCHANGED <<m_state, m_socket, m_running, m_thread, appPc, openSockets,
                 nextSocket, stateLog, calls, terminated, peerOpen, inbox,
                 delivered, connectRet, spawned, inflight, framed, payloadLen,
                 payload, readFailed>>

\* the handle of the connection opened last: inbox, inflight and peerOpen
\* describe its stream.  An older handle left open has a silent peer.
Connection == nextSocket - 1

\* the pending recv returns SOCKET_ERROR: its handle is not an open socket
RecvError == recvSocket \notin openSockets

\* the pending recv returns 0: the peer closed and every byte was read
RecvEof ==
  /\ recvSocket \in openSockets
  /\ recvSocket = Connection
  /\ inbox = <<>>
  /\ inflight = <<>>
  /\ ~peerOpen

\* the pending recv returns bytes: some have arrived
RecvData ==
  /\ recvSocket \in openSockets
  /\ recvSocket = Connection
  /\ inbox # <<>>

\* RunLoop: ReadFrame returned message; OnMessage is called unless it is empty
Dispatch(message) ==
  delivered' = IF message # <<>> THEN Append(delivered, message) ELSE delivered

\* ReadFrame: the recv of the 2-byte header returns.  Anything but 2 bytes
\* returns "" to RunLoop, which tests its condition again; a length of 0
\* does too.  Otherwise the first recv of the payload loop is called.
LoopRead ==
  /\ loopPc = "header"
  /\ ~terminated
  /\ \/ /\ RecvError \/ RecvEof
        /\ readFailed' = TRUE
        /\ loopPc' = "check"
        /\ recvSocket' = INVALID_SOCKET
        /\ UNCHANGED <<inbox, payloadLen, payload>>
     \/ /\ RecvData
        /\ LET n == Min(2, Len(inbox))
               header == SubSeq(inbox, 1, n)
           IN  /\ inbox' = SubSeq(inbox, n + 1, Len(inbox))
               /\ IF n = 2 /\ PayloadLen(header) > 0
                    THEN /\ loopPc' = "payload"
                         /\ payloadLen' = PayloadLen(header)
                         /\ payload' = <<>>
                         /\ recvSocket' = m_socket
                    ELSE /\ loopPc' = "check"
                         /\ recvSocket' = INVALID_SOCKET
                         /\ UNCHANGED <<payloadLen, payload>>
        /\ UNCHANGED readFailed
  /\ UNCHANGED <<m_state, m_socket, m_running, m_thread, appPc, openSockets,
                 nextSocket, stateLog, calls, terminated, peerOpen, delivered,
                 connectRet, spawned, inflight, framed>>

\* ReadFrame: one recv of the payload loop returns.  A recv that returns
\* <= 0 breaks the loop and ReadFrame returns the payload as resized, zero
\* bytes where nothing was received.
LoopPayload ==
  /\ loopPc = "payload"
  /\ ~terminated
  /\ \/ /\ RecvError \/ RecvEof
        /\ readFailed' = TRUE
        /\ Dispatch(payload \o Zeros(payloadLen - Len(payload)))
        /\ loopPc' = "check"
        /\ payloadLen' = 0
        /\ payload' = <<>>
        /\ recvSocket' = INVALID_SOCKET
        /\ UNCHANGED inbox
     \/ /\ RecvData
        /\ LET n == Min(payloadLen - Len(payload), Len(inbox))
               received == payload \o SubSeq(inbox, 1, n)
           IN  /\ inbox' = SubSeq(inbox, n + 1, Len(inbox))
               /\ IF Len(received) = payloadLen
                    THEN /\ Dispatch(received)
                         /\ loopPc' = "check"
                         /\ payloadLen' = 0
                         /\ payload' = <<>>
                         /\ recvSocket' = INVALID_SOCKET
                    ELSE /\ payload' = received
                         /\ recvSocket' = m_socket
                         /\ UNCHANGED <<delivered, loopPc, payloadLen>>
        /\ UNCHANGED readFailed
  /\ UNCHANGED <<m_state, m_socket, m_running, m_thread, appPc, openSockets,
                 nextSocket, stateLog, calls, terminated, peerOpen, connectRet,
                 spawned, inflight, framed>>

\* the peer frames its next message and writes it to the connection
PeerSend ==
  /\ ~terminated
  /\ peerOpen
  /\ Connection \in openSockets
  /\ m_state = "Connected"
  /\ Len(framed) < MaxMessages
  /\ LET message == <<Len(framed) + 1>>
     IN  /\ inflight' = inflight \o ServerFrame(message)
         /\ framed' = Append(framed, message)
  /\ UNCHANGED <<m_state, m_socket, m_running, m_thread, appPc, loopPc,
                 openSockets, nextSocket, stateLog, calls, terminated, peerOpen,
                 inbox, delivered, connectRet, spawned, payloadLen, payload,
                 readFailed, recvSocket>>

\* the network hands the next byte of the stream to the receiving socket
NetDeliver ==
  /\ ~terminated
  /\ Connection \in openSockets
  /\ inflight # <<>>
  /\ inbox' = Append(inbox, Head(inflight))
  /\ inflight' = Tail(inflight)
  /\ UNCHANGED <<m_state, m_socket, m_running, m_thread, appPc, loopPc,
                 openSockets, nextSocket, stateLog, calls, terminated, peerOpen,
                 delivered, connectRet, spawned, framed, payloadLen, payload,
                 readFailed, recvSocket>>

\* the peer closes the stream
PeerClose ==
  /\ ~terminated
  /\ peerOpen
  /\ Connection \in openSockets
  /\ peerOpen' = FALSE
  /\ UNCHANGED <<m_state, m_socket, m_running, m_thread, appPc, loopPc,
                 openSockets, nextSocket, stateLog, calls, terminated, inbox,
                 delivered, connectRet, spawned, inflight, framed, payloadLen,
                 payload, readFailed, recvSocket>>

\* the thread that calls Connect and Disconnect
NextCaller ==
  \/ (\E o \in SocketOutcomes : ConnectSocket(o)) /\ UNCHANGED <<fbVars, txVars, extVars>>
  \/ (\E o \in HandshakeOutcomes : PerformHandshake(o)) /\ UNCHANGED <<fbVars, txVars, extVars>>
  \/ StartThread /\ UNCHANGED <<fbVars, txVars, extVars>>
  \/ DisconnectStop /\ UNCHANGED <<fbVars, txVars, extVars>>
  \/ DisconnectClose /\ UNCHANGED <<fbVars, txVars, extVars>>
  \/ DisconnectInvalidate /\ UNCHANGED <<fbVars, txVars, extVars>>
  \/ DisconnectJoin /\ UNCHANGED <<fbVars, txVars, extVars>>
  \/ DisconnectNotify /\ UNCHANGED <<fbVars, txVars, extVars>>

\* the receive thread
NextLoop ==
  \/ LoopCheck /\ UNCHANGED <<fbVars, txVars, extVars>>
  \/ LoopCheckSocket /\ UNCHANGED <<fbVars, txVars, extVars>>
  \/ LoopRead /\ UNCHANGED <<fbVars, txVars, extVars>>
  \/ LoopPayload /\ UNCHANGED <<fbVars, txVars, extVars>>

\* the peer and the network
NextPeer ==
  \/ PeerSend /\ UNCHANGED <<fbVars, txVars, extVars>>
  \/ NetDeliver /\ UNCHANGED <<fbVars, txVars, extVars>>
  \/ PeerClose /\ UNCHANGED <<fbVars, txVars, extVars>>

NextSC == NextCaller \/ NextLoop \/ NextPeer

(***************************************************************************)
(* SignalingClient::Send                                                   *)
(***************************************************************************)

\* the parts of the frame WriteFrame builds, in the order send() is given
\* them: the header (0x81, length, mask) and the masked payload
FramePieces == <<"header", "payload">>

\* a Send without the lock_guard
MutexIgnored == TRUE

\* m_sendMutex can be taken
MutexFree == m_sendMutex = NoThread

\* SendAnswer / SendIceCandidate up to the lock_guard in Send: the caller
\* builds its message and takes m_sendMutex
SendLock(s) ==
  /\ sendPc[s] = "idle"
  /\ ~terminated
  /\ nextSend <= MaxSends
  /\ MutexFree
  /\ m_sendMutex' = s
  /\ sendFrame' = [sendFrame EXCEPT ![s] = nextSend]
  /\ nextSend' = nextSend + 1
  /\ sendPc' = [sendPc EXCEPT ![s] = "write"]
  /\ UNCHANGED <<sendSocket, sendChunk, sent>>

\* WriteFrame: the frame is built and send() is called on the handle
\* m_socket holds; send returns SOCKET_ERROR at once on a handle that is
\* not an open socket
WriteFrame(s) ==
  /\ sendPc[s] = "write"
  /\ ~terminated
  /\ sendSocket' = [sendSocket EXCEPT ![s] = m_socket]
  /\ sendChunk' = [sendChunk EXCEPT ![s] = 0]
  /\ sendPc' = [sendPc EXCEPT ![s] =
                  IF m_socket \in openSockets THEN "sending" ELSE "unlock"]
  /\ UNCHANGED <<m_sendMutex, sendFrame, nextSend, sent>>

\* inside send(): the transport takes the next piece of the frame, or the
\* call fails because the socket was closed meanwhile
SendChunk(s) ==
  /\ sendPc[s] = "sending"
  /\ ~terminated
  /\ IF sendSocket[s] \in openSockets
       THEN /\ sent' = Append(sent, <<sendFrame[s],
                                      FramePieces[sendChunk[s] + 1]>>)
            /\ sendChunk' = [sendChunk EXCEPT ![s] = sendChunk[s] + 1]
            /\ sendPc' = [sendPc EXCEPT ![s] =
                   IF sendChunk[s] + 1 = Len(FramePieces) THEN "unlock" ELSE "sending"]
       ELSE /\ sendPc' = [sendPc EXCEPT ![s] = "unlock"]
            /\ UNCHANGED <<sent, sendChunk>>
  /\ UNCHANGED <<m_sendMutex, sendFrame, sendSocket, nextSend>>

\* Send returns: the lock_guard releases m_sendMutex
SendUnlock(s) ==
  /\ sendPc[s] = "unlock"
  /\ ~terminated
  /\ m_sendMutex' = NoThread
  /\ sendPc' = [sendPc EXCEPT ![s] = "idle"]
  /\ UNCHANGED <<sendFrame, sendSocket, sendChunk, nextSend, sent>>

NextTX ==
  \/ (\E s \in Senders : SendLock(s)) /\ UNCHANGED <<fbVars, sessionVars, extVars>>
  \/ (\E s \in Senders : WriteFrame(s)) /\ UNCHANGED <<fbVars, sessionVars, extVars>>
  \/ (\E s \in Senders : SendChunk(s)) /\ UNCHANGED <<fbVars, sessionVars, extVars>>
  \/ (\E s \in Senders : SendUnlock(s)) /\ UNCHANGED <<fbVars, sessionVars, extVars>>

(***************************************************************************)
(* SignalingClient::WriteFrame, byte by byte                               *)
(***************************************************************************)

Bytes == 0..255

\* the payload bytes short payloads are made of: zero, the first byte of
\* the mask key, and a byte with the top bit set
PayloadBytes == {0, 18, 255}

\* data.size() at the edges of the three length classes
BoundaryLengths == {125, 126, 65535, 65536}

\* a payload of n bytes that differ from index to index
Pattern(n) == [i \in 1..n |-> (7 * i) % 256]

\* the payloads WriteFrame is called with
Payloads ==
  UNION {[1..n -> PayloadBytes] : n \in 0..MaxLen}
    \cup {Pattern(n) : n \in BoundaryLengths}

RECURSIVE BitXor(_, _, _)
\* a ^ b on the low `bits` bits
BitXor(a, b, bits) ==
  IF bits = 0 THEN 0
  ELSE (((a % 2) + (b % 2)) % 2) + 2 * BitXor(a \div 2, b \div 2, bits - 1)

\* a ^ b, stored into an unsigned char
Xor8(a, b) == BitXor(a, b, 8)

RECURSIVE ShiftRight8(_, _)
\* n >> (i * 8)
ShiftRight8(n, i) == IF i = 0 THEN n ELSE ShiftRight8(n \div 256, i - 1)

\* a variant with the 7-bit class one length too wide
SevenBitMaxOffByOne == 125 + 1

\* the largest data.size() written into the 7-bit length field
SevenBitMax == 125

\* the largest data.size() written as 2 bytes
SixteenBitMax == 65535

\* unsigned char mask[4] = {0x12, 0x34, 0x56, 0x78}
mask == <<18, 52, 86, 120>>

\* a variant that repeats the key every 3 bytes
MaskIndexMod3(i) == i % 3

\* the index into mask used for payload byte i (from 0)
MaskIndex(i) == i % 4

\* the length bytes WriteFrame pushes for data.size() = n, mask bit set
LengthField(n) ==
  IF n <= SevenBitMax THEN <<128 + (n % 256)>>
  ELSE IF n <= SixteenBitMax
    THEN <<128 + 126, ShiftRight8(n, 1) % 256, n % 256>>
    ELSE <<128 + 127>> \o [k \in 1..8 |-> ShiftRight8(n, 8 - k) % 256]

\* the bytes of the masked-payload loop
MaskedPayload(d) == [i \in 1..Len(d) |-> Xor8(d[i], mask[MaskIndex(i - 1) + 1])]

\* the whole vector WriteFrame hands to send()
WriteFrameBytes(d) == <<129>> \o LengthField(Len(d)) \o mask \o MaskedPayload(d)

WriteFrameInit ==
  /\ data = <<>>
  /\ encoded = <<>>
  /\ wfPc = "idle"

\* frame.push_back(0x81)
WriteFrameOpcode ==
  /\ wfPc = "opcode"
  /\ encoded' = Append(encoded, 129)
  /\ wfPc' = "length"
  /\ UNCHANGED data

\* the if / else if / else on data.size()
WriteFrameLength ==
  /\ wfPc = "length"
  /\ encoded' = encoded \o LengthField(Len(data))
  /\ wfPc' = "mask"
  /\ UNCHANGED data

\* frame.insert(frame.end(), mask, mask + 4)
WriteFrameMask ==
  /\ wfPc = "mask"
  /\ encoded' = encoded \o mask
  /\ wfPc' = "payload"
  /\ UNCHANGED data

\* the loop over data[i] ^ mask[i % 4]; the vector is then given to send()
WriteFramePayload ==
  /\ wfPc = "payload"
  /\ encoded' = encoded \o MaskedPayload(data)
  /\ wfPc' = "send"
  /\ UNCHANGED data

NextWriteFrame ==
  \/ WriteFrameOpcode /\ UNCHANGED othersOfWf
  \/ WriteFrameLength /\ UNCHANGED othersOfWf
  \/ WriteFrameMask /\ UNCHANGED othersOfWf
  \/ WriteFramePayload /\ UNCHANGED othersOfWf

(***************************************************************************)
(* SignalingClient::ReadFrame, byte by byte, on a stream that carries one  *)
(* frame and what follows it                                               *)
(***************************************************************************)

\* a uint64_t payloadLen: its value is low when it is below 2^31 (wide is
\* FALSE); otherwise wide is TRUE and low is (int)payloadLen, the low 32
\* bits read as a signed int
Narrow(n) == [wide |-> FALSE, low |-> n]

\* a byte of the low half read as the top byte of a signed 32-bit int
SignedByte(b) == IF b >= 128 THEN b - 256 ELSE b

\* payloadLen = (len16[0] << 8) | len16[1]
Len16(b) == Narrow(b[1] * 256 + b[2])

\* payloadLen = (payloadLen << 8) | len64[i] for i = 0..7
Len64(b) ==
  [wide |-> (\E k \in 1..4 : b[k] # 0) \/ b[5] >= 128,
   low  |-> ((SignedByte(b[5]) * 256 + b[6]) * 256 + b[7]) * 256 + b[8]]

\* totalReceived < payloadLen
LoopContinues(len, totalReceived) == len.wide \/ totalReceived < len.low

\* (int)(payloadLen - totalReceived), where the loop continues
RecvLen(len, totalReceived) == len.low - totalReceived

\* the length bytes of an unmasked frame: the 7-bit field alone, or 126 and
\* 2 big-endian bytes, or 127 and 8 big-endian bytes (n below 65536)
ServerLengthField(class, n) ==
  IF class = 7 THEN <<n>>
  ELSE IF class = 16 THEN <<126, (n \div 256) % 256, n % 256>>
  ELSE <<127, 0, 0, 0, 0, 0, 0, (n \div 256) % 256, n % 256>>

LengthClasses == {7, 16, 64}

\* an unmasked text frame as a server writes it
UnmaskedFrame(class, message) ==
  <<129>> \o ServerLengthField(class, Len(message)) \o message

\* the payload of n bytes a server sends: every byte differs
ServerMessage(n) == [i \in 1..n |-> 10 + i]

\* 64-bit length fields that announce 2^31, 2^32 and 2^32 + 1 bytes
WideFields ==
  {<<0, 0, 0, 0, 128, 0, 0, 0>>, <<0, 0, 0, 1, 0, 0, 0, 0>>,
   <<0, 0, 0, 1, 0, 0, 0, 1>>}

\* what the peer writes after the frame: nothing, or a frame of one byte
Followings == {<<>>, <<129, 1, 9>>}

\* the streams ReadFrame is run on.  origin "client" is a frame built by
\* WriteFrame; origin "server" is an unmasked frame; a frame whose length
\* does not fit 31 bits has only its first payload bytes written so far.
SentFrames ==
  {[origin |-> "client", bytes |-> WriteFrameBytes(d), payload |-> d,
    announced |-> Narrow(Len(d)), following |-> <<>>] :
      d \in UNION {[1..n -> PayloadBytes] : n \in 0..MaxLen}}
  \cup
  {[origin |-> "server", bytes |-> UnmaskedFrame(c, ServerMessage(n)),
    payload |-> ServerMessage(n), announced |-> Narrow(n), following |-> f] :
      c \in LengthClasses, n \in 0..MaxLen, f \in Followings}
  \cup
  {[origin |-> "server", bytes |-> <<129, 127>> \o w \o ServerMessage(2),
    payload |-> ServerMessage(2), announced |-> Len64(w), following |-> <<>>] :
      w \in WideFields}

\* the value ReadFrame has not returned yet
NoReturn == [size |-> Narrow(0), bytes |-> <<>>, failed |-> FALSE, stage |-> "none"]

ReadFrameInit ==
  /\ wire = <<>>
  /\ arrived = <<>>
  /\ wireOpen = FALSE
  /\ sentFrame = [origin |-> "none", bytes |-> <<>>, payload |-> <<>>,
                  announced |-> Narrow(0), following |-> <<>>]
  /\ rfPc = "idle"
  /\ rfLen = Narrow(0)
  /\ rfPayload = <<>>
  /\ rfRet = NoReturn
  /\ handled = <<>>
  /\ rfCalls = 0

\* the recv in progress returns 0: the stream is closed and nothing is left
RecvClosed == arrived = <<>> /\ ~wireOpen

\* the recv in progress returns bytes
RecvReady == arrived # <<>>

\* RunLoop calls ReadFrame
ReadFrameCall ==
  /\ rfPc = "idle"
  /\ rfCalls < MaxReads
  /\ rfPc' = "header"
  /\ rfCalls' = rfCalls + 1
  /\ UNCHANGED <<wire, arrived, wireOpen, sentFrame, rfLen, rfPayload, rfRet,
                 handled>>

\* ReadFrame returns a std::string of `size` bytes: `bytes`, then zero bytes
\* where resize put them and nothing was received.  RunLoop passes it to
\* OnMessage unless it is empty.  failed: a recv of this call returned
\* fewer bytes than the field it reads has, or <= 0.
ReadFrameReturn(size, bytes, failed, stage) ==
  /\ rfRet' = [size |-> size, bytes |-> bytes, failed |-> failed, stage |-> stage]
  /\ handled' = IF size # Narrow(0) THEN Append(handled, rfRet') ELSE handled
  /\ rfPc' = "idle"
  /\ rfLen' = Narrow(0)
  /\ rfPayload' = <<>>

\* payload.resize(payloadLen) and the first test of the loop condition.  A
\* resize to 2^31 bytes or more can throw std::bad_alloc, which nothing
\* catches in the receive thread.
ReadFrameResize(len) ==
  \/ IF LoopContinues(len, 0)
       THEN /\ rfPc' = "payload"
            /\ rfLen' = len
            /\ rfPayload' = <<>>
            /\ UNCHANGED <<rfRet, handled>>
       ELSE ReadFrameReturn(len, <<>>, FALSE, "payload")
  \/ /\ len.wide
     /\ rfPc' = "terminated"
     /\ UNCHANGED <<rfLen, rfPayload, rfRet, handled>>

\* recv(m_socket, header, 2, 0) returns
ReadFrameHeader ==
  /\ rfPc = "header"
  /\ \/ /\ RecvClosed
        /\ ReadFrameReturn(Narrow(0), <<>>, TRUE, "header")
        /\ UNCHANGED arrived
     \/ /\ RecvReady
        /\ LET n == Min(2, Len(arrived))
               header == SubSeq(arrived, 1, n)
           IN  /\ arrived' = SubSeq(arrived, n + 1, Len(arrived))
               /\ IF n # 2 THEN ReadFrameReturn(Narrow(0), <<>>, TRUE, "header")
                  ELSE IF PayloadLen(header) = 126
                    THEN /\ rfPc' = "len16"
                         /\ UNCHANGED <<rfLen, rfPayload, rfRet, handled>>
                  ELSE IF PayloadLen(header) = 127
                    THEN /\ rfPc' = "len64"
                         /\ UNCHANGED <<rfLen, rfPayload, rfRet, handled>>
                  ELSE ReadFrameResize(Narrow(PayloadLen(header)))
  /\ UNCHANGED <<wire, wireOpen, sentFrame, rfCalls>>

\* recv(m_socket, len16, 2, 0) returns
ReadFrameLen16 ==
  /\ rfPc = "len16"
  /\ \/ /\ RecvClosed
        /\ ReadFrameReturn(Narrow(0), <<>>, TRUE, "length")
        /\ UNCHANGED arrived
     \/ /\ RecvReady
        /\ LET n == Min(2, Len(arrived))
               len16 == SubSeq(arrived, 1, n)
           IN  /\ arrived' = SubSeq(arrived, n + 1, Len(arrived))
               /\ IF n # 2 THEN ReadFrameReturn(Narrow(0), <<>>, TRUE, "length")
                  ELSE ReadFrameResize(Len16(len16))
  /\ UNCHANGED <<wire, wireOpen, sentFrame, rfCalls>>

\* recv(m_socket, len64, 8, 0) returns
ReadFrameLen64 ==
  /\ rfPc = "len64"
  /\ \/ /\ RecvClosed
        /\ ReadFrameReturn(Narrow(0), <<>>, TRUE, "length")
        /\ UNCHANGED arrived
     \/ /\ RecvReady
        /\ LET n == Min(8, Len(arrived))
               len64 == SubSeq(arrived, 1, n)
           IN  /\ arrived' = SubSeq(arrived, n + 1, Len(arrived))
               /\ IF n # 8 THEN ReadFrameReturn(Narrow(0), <<>>, TRUE, "length")
                  ELSE ReadFrameResize(Len64(len64))
  /\ UNCHANGED <<wire, wireOpen, sentFrame, rfCalls>>

\* one recv of the payload loop returns.  A count that is not positive
\* makes recv return 0 or SOCKET_ERROR at once; received <= 0 breaks the
\* loop and the payload is returned as it is.
ReadFramePayload ==
  /\ rfPc = "payload"
  /\ LET len == RecvLen(rfLen, Len(rfPayload))
     IN  \/ /\ len <= 0 \/ RecvClosed
            /\ ReadFrameReturn(rfLen, rfPayload, TRUE, "payload")
            /\ UNCHANGED arrived
         \/ /\ len > 0
            /\ RecvReady
            /\ LET n == Min(len, Len(arrived))
                   received == rfPayload \o SubSeq(arrived, 1, n)
               IN  /\ arrived' = SubSeq(arrived, n + 1, Len(arrived))
                   /\ IF LoopContinues(rfLen, Len(received))
                        THEN /\ rfPayload' = received
                             /\ UNCHANGED <<rfPc, rfLen, rfRet, handled>>
                        ELSE ReadFrameReturn(rfLen, received, FALSE, "payload")
  /\ UNCHANGED <<wire, wireOpen, sentFrame, rfCalls>>

\* the network hands the next byte of the stream to the socket
StreamArrive ==
  /\ wire # <<>>
  /\ arrived' = Append(arrived, Head(wire))
  /\ wire' = Tail(wire)
  /\ UNCHANGED <<wireOpen, sentFrame, rfPc, rfLen, rfPayload, rfRet, handled,
                 rfCalls>>

\* the connection is lost: what has not arrived never arrives
StreamClose ==
  /\ wireOpen
  /\ wireOpen' = FALSE
  /\ wire' = <<>>
  /\ UNCHANGED <<arrived, sentFrame, rfPc, rfLen, rfPayload, rfRet, handled,
                 rfCalls>>

NextReadFrame ==
  \/ ReadFrameCall /\ UNCHANGED othersOfRf
  \/ ReadFrameHeader /\ UNCHANGED othersOfRf
  \/ ReadFrameLen16 /\ UNCHANGED othersOfRf
  \/ ReadFrameLen64 /\ UNCHANGED othersOfRf
  \/ ReadFramePayload /\ UNCHANGED othersOfRf
  \/ StreamArrive /\ UNCHANGED othersOfRf
  \/ StreamClose /\ UNCHANGED othersOfRf

(***************************************************************************)
(* SignalingClient::Connect and PerformHandshake, character by character   *)
(***************************************************************************)

\* the two line-end characters
CR == "\r"
LF == "\n"

Digits == {"0", "1", "2", "3", "4", "5", "6", "7", "8", "9"}

DigitValue ==
  ("0" :> 0) @@ ("1" :> 1) @@ ("2" :> 2) @@ ("3" :> 3) @@ ("4" :> 4) @@
  ("5" :> 5) @@ ("6" :> 6) @@ ("7" :> 7) @@ ("8" :> 8) @@ ("9" :> 9)

RECURSIVE Stoi(_)
\* std::stoi on a run of digits
Stoi(digits) ==
  IF digits = <<>> THEN 0
  ELSE 10 * Stoi(SubSeq(digits, 1, Len(digits) - 1)) + DigitValue[digits[Len(digits)]]

\* the literal prefix of urlRegex
WsScheme == <<"w", "s", ":", "/", "/">>

\* std::string host = "localhost"; int port = 8080; std::string path = "/"
DefaultHost == <<"l", "o", "c", "a", "l", "h", "o", "s", "t">>
DefaultPort == 8080
DefaultPath == <<"/">>

RECURSIVE RunLength(_, _, _)
\* the length of the longest run of characters of `class` in s from position i
RunLength(s, i, class) ==
  IF i > Len(s) \/ ~class[s[i]] THEN 0 ELSE 1 + RunLength(s, i + 1, class)

\* the characters a url is made of
UrlChars ==
  {":", "/", ".", "w", "s", "h", "o", "t", "a", "b"} \cup Digits

\* [^:/]
HostChar == [c \in UrlChars |-> c \notin {":", "/"}]

\* \d
DigitChar == [c \in UrlChars |-> c \in Digits]

\* std::regex_match(url, match, urlRegex) for ws://([^:/]+):?(\d+)?(/?.*)?
\* Every quantifier is greedy and the last group takes any rest, so the
\* first attempt of the matcher succeeds whenever the prefix is there and
\* the host group is not empty.  The groups are given as <<from, to>>.
RegexMatch(s) ==
  LET hostFrom == Len(WsScheme) + 1
      hostLen  == RunLength(s, hostFrom, HostChar)
      afterHost == hostFrom + hostLen
      colon    == IF afterHost <= Len(s) /\ s[afterHost] = ":" THEN 1 ELSE 0
      portFrom == afterHost + colon
      portLen  == RunLength(s, portFrom, DigitChar)
  IN  [matched |-> /\ Len(s) >= Len(WsScheme)
                   /\ SubSeq(s, 1, Len(WsScheme)) = WsScheme
                   /\ hostLen > 0,
       host    |-> SubSeq(s, hostFrom, afterHost - 1),
       portMatched |-> portLen > 0,
       port    |-> SubSeq(s, portFrom, portFrom + portLen - 1),
       path    |-> SubSeq(s, portFrom + portLen, Len(s))]

\* the host, port and path Connect ends up with
ParseUrl(s) ==
  LET m == RegexMatch(s)
  IN  [host |-> IF m.matched THEN m.host ELSE DefaultHost,
       port |-> IF m.matched /\ m.portMatched THEN Stoi(m.port) ELSE DefaultPort,
       path |-> IF m.matched /\ m.path # <<>> THEN m.path ELSE DefaultPath]

\* "?room=" + room + "&role=receiver"
Query(r) == <<"?", "r", "o", "o", "m", "=">> \o r \o
  <<"&", "r", "o", "l", "e", "=", "r", "e", "c", "e", "i", "v", "e", "r">>

\* what an address is written from: a scheme or none, a host, a port or
\* none (<<>>), a path or none (<<>>)
Schemes == {<<>>, WsScheme}
HostNames == {<<"h", "o", "s", "t">>, <<"a", ".", "b">>}
PortTexts == {<<>>, <<"1", "2", "3", "4">>}
PathTexts == {<<>>, <<"/">>, <<"/", "w", "s">>}

\* the text of an address
AddressText(a) ==
  a.scheme \o a.host \o (IF a.port = <<>> THEN <<>> ELSE <<":">> \o a.port) \o a.path

Addresses ==
  [scheme : Schemes, host : HostNames, port : PortTexts, path : PathTexts]

Rooms == {<<"r", "o", "o", "m", "A">>, <<"r">>}

\* what the peer answers to the upgrade request: status is the status code
\* of the status line of text; an empty text is a peer that closes the
\* stream without answering
Responses ==
  {[status |-> "101", text |->
      <<"H", "T", "T", "P", "/", "1", ".", "1", " ", "1", "0", "1", " ", "S",
          "w", "i", "t", "c", "h", "i", "n", "g", " ", "P", "r", "o", "t",
          "o", "c", "o", "l", "s", CR, LF, CR, LF>>],
   [status |-> "400", text |->
      <<"H", "T", "T", "P", "/", "1", ".", "1", " ", "4", "0", "0", " ", "B",
          "a", "d", " ", "R", "e", "q", "u", "e", "s", "t", CR, LF, "C", "o",
          "n", "t", "e", "n", "t", "-", "L", "e", "n", "g", "t", "h", ":",
          " ", "1", "0", "1", CR, LF, CR, LF>>],
   [status |-> "404", text |->
      <<"H", "T", "T", "P", "/", "1", ".", "1", " ", "4", "0", "4", " ", "N",
          "o", "t", " ", "F", "o", "u", "n", "d", CR, LF, CR, LF>>],
   [status |-> "none", text |-> <<>>]}

\* char buffer[1024]
BufferSize == 1024

\* strstr(haystack, needle) != nullptr
Strstr(haystack, needle) ==
  \E i \in 1..(Len(haystack) - Len(needle) + 1) :
    SubSeq(haystack, i, i + Len(needle) - 1) = needle

\* the token PerformHandshake looks for
StatusToken == <<"1", "0", "1">>

NoTarget == [host |-> <<>>, port |-> 0]
NoRequest == [path |-> <<>>, host |-> <<>>]

ConnectInit ==
  /\ url = <<>>
  /\ room = <<>>
  /\ address = [scheme |-> <<>>, host |-> <<>>, port |-> <<>>, path |-> <<>>]
  /\ peerResponse = [status |-> "none", text |-> <<>>]
  /\ host = DefaultHost
  /\ port = DefaultPort
  /\ path = DefaultPath
  /\ cxPc = "idle"
  /\ target = NoTarget
  /\ request = NoRequest
  /\ buffer = <<>>
  /\ cxSocket = "none"
  /\ cxState = "Disconnected"
  /\ cxRet = "none"

\* Connect up to the call of ConnectSocket: the url is parsed and the query
\* parameters are appended to the path
ConnectParse ==
  /\ cxPc = "parse"
  /\ LET parsed == ParseUrl(url)
     IN  /\ host' = parsed.host
         /\ port' = parsed.port
         /\ path' = parsed.path \o Query(room)
  /\ cxPc' = "socket"
  /\ UNCHANGED <<url, room, address, peerResponse, target, request, buffer,
                 cxSocket, cxState, cxRet>>

\* ConnectSocket(host, port) and, when it fails, the return of Connect
ConnectOpen(outcome) ==
  /\ cxPc = "socket"
  /\ target' = [host |-> host, port |-> port]
  /\ IF outcome = "ok"
       THEN /\ cxSocket' = "open"
            /\ cxPc' = "send"
            /\ UNCHANGED <<cxState, cxRet>>
       ELSE /\ cxState' = "Error"
            /\ cxRet' = FALSE
            /\ cxPc' = "done"
            /\ UNCHANGED cxSocket
  /\ UNCHANGED <<url, room, address, peerResponse, host, port, path, request,
                 buffer>>

\* PerformHandshake: the request is built and sent
HandshakeSend(outcome) ==
  /\ cxPc = "send"
  /\ request' = [path |-> path, host |-> DefaultHost]
  /\ cxPc' = IF outcome = "ok" THEN "recv" ELSE "rejected"
  /\ UNCHANGED <<url, room, address, peerResponse, host, port, path, target,
                 buffer, cxSocket, cxState, cxRet>>

\* PerformHandshake: the one recv returns `received` characters of what the
\* peer answers, 0 when the peer has closed the stream without answering,
\* or SOCKET_ERROR; the buffer is then searched for "101"
HandshakeRecv(received) ==
  /\ cxPc = "recv"
  /\ received <= Min(Len(peerResponse.text), BufferSize - 1)
  /\ (received = 0) => (peerResponse.text = <<>>)
  /\ IF received <= 0
       THEN /\ cxPc' = "rejected"
            /\ UNCHANGED buffer
       ELSE /\ buffer' = SubSeq(peerResponse.text, 1, received)
            /\ cxPc' = IF Strstr(buffer', StatusToken) THEN "accepted" ELSE "rejected"
  /\ UNCHANGED <<url, room, address, peerResponse, host, port, path, target,
                 request, cxSocket, cxState, cxRet>>

\* Connect after PerformHandshake returned: on failure the socket is closed
\* and the state is Error, otherwise the state is Connected
ConnectReturn ==
  /\ cxPc \in {"accepted", "rejected"}
  /\ IF cxPc = "accepted"
       THEN /\ cxState' = "Connected"
            /\ cxRet' = TRUE
            /\ UNCHANGED cxSocket
       ELSE /\ cxSocket' = "closed"
            /\ cxState' = "Error"
            /\ cxRet' = FALSE
  /\ cxPc' = "done"
  /\ UNCHANGED <<url, room, address, peerResponse, host, port, path, target,
                 request, buffer>>

NextConnect ==
  \/ ConnectParse /\ UNCHANGED othersOfCx
  \/ (\E o \in {"ok", "failed"} : ConnectOpen(o)) /\ UNCHANGED othersOfCx
  \/ (\E o \in {"ok", "failed"} : HandshakeSend(o)) /\ UNCHANGED othersOfCx
  \/ (\E n \in -1..Len(peerResponse.text) : HandshakeRecv(n)) /\ UNCHANGED othersOfCx
  \/ ConnectReturn /\ UNCHANGED othersOfCx

(***************************************************************************)
(* Application, VirtualCamera and the filter that reads the shared region  *)
(***************************************************************************)

\* the thread that pushes received frames and the FrameLoop thread, as
\* threads of the frame channel
Receiver  == "p1"
FrameLoop == "c1"

VIDEO_WIDTH  == 1280
VIDEO_HEIGHT == 720

\* what PushFrame writes for frame f: every frame has the default size; its
\* timestamp and every one of its pixel words are its number
HeaderOf(f) == [width |-> VIDEO_WIDTH, height |-> VIDEO_HEIGHT, timestamp |-> f]
PixelsOf(f) == [k \in 1..PixelWords |-> f]

\* the region as CreateFileMappingW makes it: zero-filled
EmptyRegion == [header |-> [width |-> 0, height |-> 0, timestamp |-> 0],
                pixels |-> [k \in 1..PixelWords |-> NoFrame]]

\* a producer that signals right after the header
PcAfterHeaderSkipsPixels == "signal"

\* where PushFrame goes on after the header: the memcpy of the pixels
PcAfterHeader == "pixels"

\* a region that the producer leaves alone while the filter is copying
RegionFreeWhenNotCopying == ftPc # "copy"

\* what a write to the region waits for: nothing
RegionFree == TRUE

CameraInit ==
  /\ vcRunning = FALSE
  /\ vcPc = "none"
  /\ written = 0
  /\ regionExists = FALSE
  /\ region = EmptyRegion
  /\ frameEvent = FALSE
  /\ signals = <<>>
  /\ ftPc = "idle"
  /\ ftBuf = <<>>
  /\ ftOut = <<>>
  /\ apPc = "idle"
  /\ connected = FALSE
  /\ session = 0
  /\ firstFrame = 1
  /\ staleFrames = {}

\* Application::Connect with a signaling session that connects: the state
\* callback gets Connected on the calling thread and calls
\* VirtualCamera::Start, which creates the region and the event unless it
\* fails to, and starts FrameLoop
AppConnect(created) ==
  /\ apPc = "idle"
  /\ ~connected
  /\ session < MaxSessions
  /\ connected' = TRUE
  /\ session' = session + 1
  /\ IF created
       THEN /\ regionExists' = TRUE
            /\ vcRunning' = TRUE
            /\ vcPc' = "check"
       ELSE UNCHANGED <<regionExists, vcRunning, vcPc>>
  /\ firstFrame' = nextId
  /\ UNCHANGED <<written, region, frameEvent, signals, ftPc, ftBuf, ftOut, apPc,
                 staleFrames>>

\* Application::Disconnect up to the join inside VirtualCamera::Stop: the
\* session's Disconnect reports Disconnected and the callback calls Stop
AppDisconnect ==
  /\ apPc = "idle"
  /\ connected
  /\ connected' = FALSE
  /\ vcRunning' = FALSE
  /\ apPc' = "join"
  /\ UNCHANGED <<vcPc, written, regionExists, region, frameEvent, signals, ftPc,
                 ftBuf, ftOut, session, firstFrame, staleFrames>>

\* VirtualCamera::Stop: m_thread.join() returns once FrameLoop has ended;
\* Application::Disconnect then returns
AppDisconnectJoin ==
  /\ apPc = "join"
  /\ vcPc \in {"none", "exit"}
  /\ vcPc' = "none"
  /\ apPc' = "idle"
  /\ UNCHANGED <<vcRunning, written, regionExists, region, frameEvent, signals,
                 ftPc, ftBuf, ftOut, connected, session, firstFrame, staleFrames>>

\* a frame arrives while the session is connected: the receiver calls Push
ReceiverPush ==
  /\ connected
  /\ PushLock(Receiver)
  /\ UNCHANGED vcVars

\* FrameLoop: while (m_running)
FrameLoopCheck ==
  /\ vcPc = "check"
  /\ vcPc' = IF vcRunning THEN "pop" ELSE "exit"
  /\ UNCHANGED <<vcRunning, written, regionExists, region, frameEvent, signals,
                 ftPc, ftBuf, ftOut, apPc, connected, session, firstFrame,
                 staleFrames>>

\* FrameLoop after a step of its Pop: it is still waiting, or Pop returned
\* true and PushFrame is called, or Pop returned false
FrameLoopPopped ==
  /\ vcPc' = IF pc'[FrameLoop] = "waiting" THEN "wait"
             ELSE IF ret'[FrameLoop] = "pop_true" THEN "header" ELSE "check"
  /\ staleFrames' = IF /\ pc'[FrameLoop] = "idle"
                        /\ ret'[FrameLoop] = "pop_true"
                        /\ frame'[FrameLoop] < firstFrame
                       THEN staleFrames \cup {frame'[FrameLoop]}
                       ELSE staleFrames
  /\ written' = 0
  /\ UNCHANGED <<vcRunning, regionExists, region, frameEvent, signals, ftPc,
                 ftBuf, ftOut, apPc, connected, session, firstFrame>>

\* FrameLoop: m_frameBuffer->Pop(frame, 33) is called
FrameLoopPop ==
  /\ vcPc = "pop"
  /\ PopCall(FrameLoop, MaxTimeout)
  /\ FrameLoopPopped

\* FrameLoop: the wait inside Pop is over before the deadline
FrameLoopWake ==
  /\ vcPc = "wait"
  /\ PopWake(FrameLoop)
  /\ FrameLoopPopped

\* FrameLoop: the wait inside Pop timed out
FrameLoopTimeout ==
  /\ vcPc = "wait"
  /\ PopTimeout(FrameLoop)
  /\ FrameLoopPopped

\* PushFrame: the test of m_sharedMemoryPtr and m_frameEvent, then the four
\* stores of the header
PushFrameHeader ==
  /\ vcPc = "header"
  /\ RegionFree
  /\ IF regionExists
       THEN /\ region' = [region EXCEPT !.header = HeaderOf(frame[FrameLoop])]
            /\ vcPc' = PcAfterHeader
       ELSE /\ vcPc' = "check"
            /\ UNCHANGED region
  /\ UNCHANGED <<vcRunning, written, regionExists, frameEvent, signals, ftPc,
                 ftBuf, ftOut, apPc, connected, session, firstFrame, staleFrames>>

\* PushFrame: memcpy stores the next of the PixelWords pieces of the pixels
PushFramePixels ==
  /\ vcPc = "pixels"
  /\ RegionFree
  /\ region' = [region EXCEPT !.pixels[written + 1] =
                                PixelsOf(frame[FrameLoop])[written + 1]]
  /\ written' = written + 1
  /\ vcPc' = IF written + 1 = PixelWords THEN "signal" ELSE "pixels"
  /\ UNCHANGED <<vcRunning, regionExists, frameEvent, signals, ftPc, ftBuf,
                 ftOut, apPc, connected, session, firstFrame, staleFrames>>

\* PushFrame: SetEvent(m_frameEvent); PushFrame returns to FrameLoop
PushFrameSignal ==
  /\ vcPc = "signal"
  /\ frameEvent' = TRUE
  /\ signals' = Append(signals, frame[FrameLoop])
  /\ vcPc' = "check"
  /\ UNCHANGED <<vcRunning, written, regionExists, region, ftPc, ftBuf, ftOut,
                 apPc, connected, session, firstFrame, staleFrames>>

\* GenerateFrame: WaitForSingleObject finds the event signaled, which resets
\* it; the width and height of the header are tested and the memcpy begins.
\* (When the event is not signaled the placeholder is drawn.)
FilterWait ==
  /\ ftPc = "idle"
  /\ regionExists
  /\ frameEvent
  /\ frameEvent' = FALSE
  /\ IF region.header.width = VIDEO_WIDTH /\ region.header.height = VIDEO_HEIGHT
       THEN ftPc' = "copy" /\ ftBuf' = <<>>
       ELSE UNCHANGED <<ftPc, ftBuf>>
  /\ UNCHANGED <<vcRunning, vcPc, written, regionExists, region, signals, ftOut,
                 apPc, connected, session, firstFrame, staleFrames>>

\* GenerateFrame: memcpy loads the next piece of the pixels; after the last
\* one the buffer is delivered as a frame
FilterCopy ==
  /\ ftPc = "copy"
  /\ LET copied == Append(ftBuf, region.pixels[Len(ftBuf) + 1])
     IN  IF Len(copied) = PixelWords
           THEN /\ ftOut' = copied
                /\ ftBuf' = <<>>
                /\ ftPc' = "idle"
           ELSE /\ ftBuf' = copied
                /\ UNCHANGED <<ftOut, ftPc>>
  /\ UNCHANGED <<vcRunning, vcPc, written, regionExists, region, frameEvent,
                 signals, apPc, connected, session, firstFrame, staleFrames>>

\* the frame channel between the receiver and FrameLoop
NextChannel ==
  \/ ReceiverPush /\ UNCHANGED othersOfCamera
  \/ PushEvict(Receiver) /\ UNCHANGED <<vcVars, othersOfCamera>>
  \/ PushInsert(Receiver) /\ UNCHANGED <<vcVars, othersOfCamera>>
  \/ Tick /\ UNCHANGED <<vcVars, othersOfCamera>>
  \/ FrameLoopCheck /\ UNCHANGED othersOfVc
  \/ FrameLoopPop /\ UNCHANGED othersOfCamera
  \/ FrameLoopWake /\ UNCHANGED othersOfCamera
  \/ FrameLoopTimeout /\ UNCHANGED othersOfCamera

\* VirtualCamera::PushFrame
NextPushFrame ==
  \/ PushFrameHeader /\ UNCHANGED othersOfVc
  \/ PushFramePixels /\ UNCHANGED othersOfVc
  \/ PushFrameSignal /\ UNCHANGED othersOfVc

\* the relay sessions of the application, the channel and the producer
NextApplication ==
  \/ (\E created \in BOOLEAN : AppConnect(created)) /\ UNCHANGED othersOfVc
  \/ AppDisconnect /\ UNCHANGED othersOfVc
  \/ AppDisconnectJoin /\ UNCHANGED othersOfVc
  \/ NextChannel
  \/ NextPushFrame

\* one relay session: the channel, the producer and the filter
NextCamera ==
  \/ AppConnect(TRUE) /\ UNCHANGED othersOfVc
  \/ NextChannel
  \/ NextPushFrame
  \/ FilterWait /\ UNCHANGED othersOfVc
  \/ FilterCopy /\ UNCHANGED othersOfVc

(***************************************************************************)
(* The operations of the UI thread (Application::Connect, Disconnect,      *)
(* Shutdown, ~Application) and the life cycle of VirtualCamera: Start,     *)
(* Stop, CreateSharedMemory, DestroySharedMemory, ~VirtualCamera           *)
(***************************************************************************)

\* nullptr
NoHandle == 0

\* no ConnectionState: the state argument of a call that is no notification
NoState == "none"

\* a call the UI thread has to make: SetState(state) on the signaling
\* client, VirtualCamera::Stop, the join inside Stop, ~VirtualCamera
Call(op, state) == [op |-> op, state |-> state]

\* the ways CreateSharedMemory can end: all three objects are created, or
\* CreateFileMappingW, MapViewOfFile or CreateEventW returns nullptr
CreateOutcomes == {"ok", "noMapping", "noView", "noEvent"}

\* the ways SignalingClient::Connect can end: SetState(Connected), or
\* SetState(Error) after ConnectSocket or PerformHandshake failed
ConnectOutcomes == {"Connected", "Error"}

\* a state callback that starts the camera whatever the state is
StartsCameraAlways(state) == TRUE

\* the state callback Application::Connect installs: Start when the state
\* is Connected, Stop otherwise
StartsCamera(state) == state = "Connected"

LifecycleInit ==
  /\ todo = <<>>
  /\ uiCalls = 0
  /\ hasClient = FALSE
  /\ notice = NoState
  /\ handles = [m_sharedMemoryHandle |-> NoHandle, m_sharedMemoryPtr |-> NoHandle,
                m_frameEvent |-> NoHandle]
  /\ openHandles = {}
  /\ handleNext = 1
  /\ started = "none"
  /\ stopPops = 0
  /\ vcTerminated = FALSE
  /\ destroyed = FALSE

\* SignalingClient::Disconnect, also called by ~SignalingClient: the
\* socket is closed, the receive thread joined and SetState(Disconnected)
\* is called whatever the state was
ClientDisconnect == IF hasClient THEN <<Call("SetState", "Disconnected")>> ELSE <<>>

\* the UI thread is between two operations
UiIdle == todo = <<>> /\ ~destroyed /\ ~vcTerminated /\ uiCalls < MaxCalls

\* Application::Connect: the new client replaces the old one, whose
\* destructor runs Disconnect, and Connect is called on the new client
ApplicationConnect(outcome) ==
  /\ UiIdle
  /\ uiCalls' = uiCalls + 1
  /\ todo' = ClientDisconnect \o <<Call("SetState", outcome)>>
  /\ hasClient' = TRUE
  /\ UNCHANGED <<notice, handles, openHandles, handleNext, started, stopPops,
                 vcTerminated, destroyed, vcVars>>

\* Application::Disconnect: the client, when there is one, is disconnected
\* and reset; VirtualCamera::Stop is called
ApplicationDisconnect ==
  /\ UiIdle
  /\ uiCalls' = uiCalls + 1
  /\ todo' = ClientDisconnect \o <<Call("Stop", NoState)>>
  /\ hasClient' = FALSE
  /\ UNCHANGED <<notice, handles, openHandles, handleNext, started, stopPops,
                 vcTerminated, destroyed, vcVars>>

\* Application::Shutdown: Disconnect, then VirtualCamera::Stop once more
ApplicationShutdown ==
  /\ UiIdle
  /\ uiCalls' = uiCalls + 1
  /\ todo' = ClientDisconnect \o <<Call("Stop", NoState), Call("Stop", NoState)>>
  /\ hasClient' = FALSE
  /\ UNCHANGED <<notice, handles, openHandles, handleNext, started, stopPops,
                 vcTerminated, destroyed, vcVars>>

\* ~Application: Shutdown, then the members are destructed; ~VirtualCamera
\* calls Stop and DestroySharedMemory
ApplicationDestroy ==
  /\ todo = <<>>
  /\ ~destroyed
  /\ ~vcTerminated
  /\ todo' = ClientDisconnect \o <<Call("Stop", NoState), Call("Stop", NoState),
                                  Call("Stop", NoState), Call("Destroy", NoState)>>
  /\ hasClient' = FALSE
  /\ UNCHANGED <<uiCalls, notice, handles, openHandles, handleNext, started,
                 stopPops, vcTerminated, destroyed, vcVars>>

\* CreateSharedMemory: every object that is created gets a new handle and
\* is stored in its member, whatever the member held; a call that returns
\* nullptr stores nullptr.  After MapViewOfFile failed the mapping is
\* closed; after CreateEventW failed DestroySharedMemory releases the view
\* and the mapping just made.
CreateSharedMemory(how) ==
  CASE how = "ok" ->
         /\ handles' = [m_sharedMemoryHandle |-> handleNext,
                        m_sharedMemoryPtr |-> handleNext + 1,
                        m_frameEvent |-> handleNext + 2]
         /\ openHandles' = openHandles \cup {handleNext, handleNext + 1, handleNext + 2}
         /\ handleNext' = handleNext + 3
    [] how = "noMapping" ->
         /\ handles' = [handles EXCEPT !.m_sharedMemoryHandle = NoHandle]
         /\ UNCHANGED <<openHandles, handleNext>>
    [] how = "noView" ->
         /\ handles' = [handles EXCEPT !.m_sharedMemoryHandle = NoHandle,
                                       !.m_sharedMemoryPtr = NoHandle]
         /\ handleNext' = handleNext + 1
         /\ UNCHANGED openHandles
    [] how = "noEvent" ->
         /\ handles' = [m_sharedMemoryHandle |-> NoHandle,
                        m_sharedMemoryPtr |-> NoHandle, m_frameEvent |-> NoHandle]
         /\ handleNext' = handleNext + 2
         /\ UNCHANGED openHandles

\* SetState(state) when the callback calls VirtualCamera::Start: true is
\* returned at once when m_running is set; otherwise CreateSharedMemory is
\* called and, when it succeeds, m_running is set and FrameLoop started
CameraStart(how) ==
  /\ todo # <<>>
  /\ Head(todo).op = "SetState"
  /\ StartsCamera(Head(todo).state)
  /\ todo' = Tail(todo)
  /\ notice' = Head(todo).state
  /\ connected' = (Head(todo).state = "Connected")
  /\ session' = session + 1
  /\ firstFrame' = nextId
  /\ IF vcRunning
       THEN UNCHANGED <<handles, openHandles, handleNext, started, stopPops,
                        vcTerminated, vcRunning, vcPc, regionExists>>
       ELSE /\ CreateSharedMemory(how)
            /\ started' = IF how = "ok" THEN "ok" ELSE "failed"
            /\ regionExists' = /\ handles'.m_sharedMemoryPtr # NoHandle
                               /\ handles'.m_frameEvent # NoHandle
            /\ IF how = "ok"
                 THEN /\ vcRunning' = TRUE
                      /\ vcTerminated' = (vcPc # "none")
                      /\ vcPc' = "check"
                      /\ stopPops' = 0
                 ELSE UNCHANGED <<vcRunning, vcTerminated, vcPc, stopPops>>
  /\ UNCHANGED <<uiCalls, hasClient, destroyed, written, region, frameEvent,
                 signals, ftPc, ftBuf, ftOut, apPc, staleFrames>>

\* VirtualCamera::Stop up to its join, called by the state callback for a
\* state other than Connected or by the application itself: m_running is
\* cleared
CameraStop ==
  /\ todo # <<>>
  /\ \/ Head(todo).op = "Stop"
     \/ Head(todo).op = "SetState" /\ ~StartsCamera(Head(todo).state)
  /\ todo' = <<Call("join", Head(todo).state)>> \o Tail(todo)
  /\ vcRunning' = FALSE
  /\ stopPops' = 0
  /\ connected' = IF Head(todo).op = "SetState" THEN FALSE ELSE connected
  /\ UNCHANGED <<uiCalls, hasClient, notice, handles, openHandles, handleNext,
                 started, vcTerminated, destroyed, vcPc, written, regionExists,
                 region, frameEvent, signals, ftPc, ftBuf, ftOut, apPc, session,
                 firstFrame, staleFrames>>

\* VirtualCamera::Stop: if (m_thread.joinable()) m_thread.join() returns
\* once FrameLoop has ended; the callback, when Stop was called by it,
\* returns
CameraJoin ==
  /\ todo # <<>>
  /\ Head(todo).op = "join"
  /\ vcPc \in {"none", "exit"}
  /\ vcPc' = "none"
  /\ todo' = Tail(todo)
  /\ notice' = IF Head(todo).state = NoState THEN notice ELSE Head(todo).state
  /\ UNCHANGED <<uiCalls, hasClient, handles, openHandles, handleNext, started,
                 stopPops, vcTerminated, destroyed, vcRunning, written,
                 regionExists, region, frameEvent, signals, ftPc, ftBuf, ftOut,
                 apPc, connected, session, firstFrame, staleFrames>>

\* ~VirtualCamera after its Stop: DestroySharedMemory closes the event,
\* the view and the mapping the members hold
DestroySharedMemory ==
  /\ todo # <<>>
  /\ Head(todo).op = "Destroy"
  /\ todo' = Tail(todo)
  /\ openHandles' = openHandles \ {handles.m_frameEvent, handles.m_sharedMemoryPtr,
                                   handles.m_sharedMemoryHandle}
  /\ handles' = [m_sharedMemoryHandle |-> NoHandle, m_sharedMemoryPtr |-> NoHandle,
                 m_frameEvent |-> NoHandle]
  /\ regionExists' = FALSE
  /\ destroyed' = TRUE
  /\ UNCHANGED <<uiCalls, hasClient, notice, handleNext, started, stopPops,
                 vcTerminated, vcRunning, vcPc, written, region, frameEvent,
                 signals, ftPc, ftBuf, ftOut, apPc, connected, session,
                 firstFrame, staleFrames>>

\* FrameLoop calls Pop: the call is counted when m_running is clear
FrameLoopPopCounted ==
  /\ FrameLoopPop
  /\ stopPops' = IF vcRunning THEN stopPops ELSE stopPops + 1
  /\ UNCHANGED <<todo, uiCalls, hasClient, notice, handles, openHandles,
                 handleNext, started, vcTerminated, destroyed>>

\* the operations of the UI thread
NextUi ==
  \/ (\E outcome \in ConnectOutcomes : ApplicationConnect(outcome))
       /\ UNCHANGED othersOfLifecycle
  \/ ApplicationDisconnect /\ UNCHANGED othersOfLifecycle
  \/ ApplicationShutdown /\ UNCHANGED othersOfLifecycle
  \/ ApplicationDestroy /\ UNCHANGED othersOfLifecycle
  \/ (\E how \in CreateOutcomes : CameraStart(how)) /\ UNCHANGED othersOfLifecycle
  \/ CameraStop /\ UNCHANGED othersOfLifecycle
  \/ CameraJoin /\ UNCHANGED othersOfLifecycle
  \/ DestroySharedMemory /\ UNCHANGED othersOfLifecycle

\* the frame channel, the receiver that fills it and FrameLoop
NextFrameLoop ==
  \/ ReceiverPush /\ UNCHANGED othersOfCamera
  \/ PushEvict(Receiver) /\ UNCHANGED <<vcVars, othersOfCamera>>
  \/ PushInsert(Receiver) /\ UNCHANGED <<vcVars, othersOfCamera>>
  \/ Tick /\ UNCHANGED <<vcVars, othersOfCamera>>
  \/ FrameLoopCheck /\ UNCHANGED othersOfVc
  \/ FrameLoopPopCounted /\ UNCHANGED <<scVars, wfVars, rfVars, cxVars, srVars, anVars>>
  \/ FrameLoopWake /\ UNCHANGED othersOfCamera
  \/ FrameLoopTimeout /\ UNCHANGED othersOfCamera
  \/ NextPushFrame

\* the application over its life: the UI thread, the frame channel and
\* the camera
NextLifecycle == NextUi \/ NextFrameLoop

(***************************************************************************)
(* Application::OnSignalingMessage on the receive thread of a session,     *)
(* while the UI thread runs Application::Connect and Disconnect            *)
(***************************************************************************)

\* no SignalingClient: nullptr in m_signalingClient
NoClient == 0

\* a message without an "sdp" field
NoSdp == "none"

\* the messages the relay sends: an offer with an sdp, an offer without,
\* an ICE candidate, a peer notification
RelayMessages ==
  {[type |-> "offer", sdp |-> "v=0"], [type |-> "offer", sdp |-> NoSdp],
   [type |-> "ice-candidate", sdp |-> NoSdp], [type |-> "peer-joined", sdp |-> NoSdp]}

\* a handler that answers every message
AnswersAll(message) == TRUE

\* OnSignalingMessage: type == "offer" and regex_search finds the sdp field
Answers(message) == message.type = "offer" /\ message.sdp # NoSdp

\* a SignalingClient as constructed
NewClient == [m_socket |-> INVALID_SOCKET, m_running |-> FALSE, pc |-> "none",
              message |-> 0, target |-> NoClient]

AnswerInit ==
  /\ clientPtr = NoClient
  /\ clients = [c \in 1..MaxSessions |-> NewClient]
  /\ anPc = "idle"
  /\ anOld = NoClient
  /\ anMade = 0
  /\ anSockets = {}
  /\ offers = <<>>

\* Application::Connect: m_signalingClient = std::make_unique<...>() stores
\* the new client; the client it held, if any, is then destructed, and its
\* destructor calls Disconnect
ConnectAssign ==
  /\ anPc = "idle"
  /\ anMade < MaxSessions
  /\ anMade' = anMade + 1
  /\ clientPtr' = anMade + 1
  /\ anOld' = clientPtr
  /\ anPc' = IF clientPtr = NoClient THEN "connect" ELSE "closeOld"
  /\ UNCHANGED <<clients, anSockets, offers>>

\* Application::Disconnect with a client: m_signalingClient->Disconnect()
DisconnectCall ==
  /\ anPc = "idle"
  /\ clientPtr # NoClient
  /\ anOld' = clientPtr
  /\ anPc' = "close"
  /\ UNCHANGED <<clientPtr, clients, anMade, anSockets, offers>>

\* SignalingClient::Disconnect up to its join: m_running is cleared, the
\* socket is closed and m_socket set to INVALID_SOCKET
SessionClose ==
  /\ anPc \in {"closeOld", "close"}
  /\ clients' = [clients EXCEPT ![anOld].m_running = FALSE,
                                ![anOld].m_socket = INVALID_SOCKET]
  /\ anSockets' = anSockets \ {clients[anOld].m_socket}
  /\ anPc' = IF anPc = "closeOld" THEN "joinOld" ELSE "join"
  /\ UNCHANGED <<clientPtr, anOld, anMade, offers>>

\* SignalingClient::Disconnect: the join returns once the receive thread
\* has left RunLoop.  Application::Disconnect then resets m_signalingClient;
\* Application::Connect goes on to connect the new client.
SessionJoin ==
  /\ anPc \in {"joinOld", "join"}
  /\ clients[anOld].pc \in {"none", "exit"}
  /\ clients' = [clients EXCEPT ![anOld].pc = "none"]
  /\ clientPtr' = IF anPc = "join" THEN NoClient ELSE clientPtr
  /\ anPc' = IF anPc = "join" THEN "idle" ELSE "connect"
  /\ anOld' = NoClient
  /\ UNCHANGED <<anMade, anSockets, offers>>

\* Application::Connect: m_signalingClient->Connect(...) connects the
\* transport and starts the receive thread, or fails and leaves the client
\* without a socket
SessionConnect(ok) ==
  /\ anPc = "connect"
  /\ anPc' = "idle"
  /\ IF ok
       THEN /\ clients' = [clients EXCEPT ![clientPtr].m_socket = clientPtr,
                                          ![clientPtr].m_running = TRUE,
                                          ![clientPtr].pc = "loop"]
            /\ anSockets' = anSockets \cup {clientPtr}
       ELSE UNCHANGED <<clients, anSockets>>
  /\ UNCHANGED <<clientPtr, anOld, anMade, offers>>

\* RunLoop of client c: while (m_running && m_socket != INVALID_SOCKET)
RunLoopTest(c) ==
  /\ clients[c].pc = "loop"
  /\ clients' = [clients EXCEPT ![c].pc =
                   IF clients[c].m_running /\ clients[c].m_socket # INVALID_SOCKET
                     THEN "recv" ELSE "exit"]
  /\ UNCHANGED <<clientPtr, anPc, anOld, anMade, anSockets, offers>>

\* RunLoop of client c: ReadFrame returns a message of the relay and
\* OnMessage passes it to the application
RunLoopMessage(c, message) ==
  /\ clients[c].pc = "recv"
  /\ clients[c].m_socket \in anSockets
  /\ Len(offers) < MaxMessages
  /\ offers' = Append(offers, [session |-> c, message |-> message,
                               handled |-> FALSE, answers |-> <<>>])
  /\ clients' = [clients EXCEPT ![c].pc = "handler", ![c].message = Len(offers) + 1]
  /\ UNCHANGED <<clientPtr, anPc, anOld, anMade, anSockets>>

\* RunLoop of client c: ReadFrame returns "" because the recv failed on a
\* closed or invalid socket
RunLoopFailed(c) ==
  /\ clients[c].pc = "recv"
  /\ clients[c].m_socket \notin anSockets
  /\ clients' = [clients EXCEPT ![c].pc = "loop"]
  /\ UNCHANGED <<clientPtr, anPc, anOld, anMade, anSockets, offers>>

\* OnSignalingMessage on the receive thread of client c: for an offer with
\* an sdp the answer is made and m_signalingClient is loaded for the call
\* of SendAnswer; every other message is handled without a send
OnSignalingMessage(c) ==
  /\ clients[c].pc = "handler"
  /\ IF Answers(offers[clients[c].message].message)
       THEN /\ clients' = [clients EXCEPT ![c].pc = "send", ![c].target = clientPtr]
            /\ UNCHANGED offers
       ELSE /\ clients' = [clients EXCEPT ![c].pc = "loop"]
            /\ offers' = [offers EXCEPT ![clients[c].message].handled = TRUE]
  /\ UNCHANGED <<clientPtr, anPc, anOld, anMade, anSockets>>

\* SendAnswer on the client that was loaded: Send takes m_sendMutex and
\* WriteFrame calls send on that client's m_socket, which writes the frame
\* when the socket is open and fails otherwise
SendAnswer(c) ==
  /\ clients[c].pc = "send"
  /\ LET t == clients[c].target
         k == clients[c].message
         wrote == /\ t # NoClient
                  /\ clients[t].m_socket # INVALID_SOCKET
                  /\ clients[t].m_socket \in anSockets
     IN  offers' = [offers EXCEPT
                      ![k].handled = TRUE,
                      ![k].answers = IF wrote THEN Append(@, clients[t].m_socket)
                                     ELSE @]
  /\ clients' = [clients EXCEPT ![c].pc = "loop"]
  /\ UNCHANGED <<clientPtr, anPc, anOld, anMade, anSockets>>

\* the UI thread in Application::Connect and Application::Disconnect
NextAnswerUi ==
  \/ ConnectAssign /\ UNCHANGED othersOfAn
  \/ DisconnectCall /\ UNCHANGED othersOfAn
  \/ SessionClose /\ UNCHANGED othersOfAn
  \/ SessionJoin /\ UNCHANGED othersOfAn
  \/ (\E ok \in BOOLEAN : SessionConnect(ok)) /\ UNCHANGED othersOfAn

\* the receive threads of the clients
NextAnswerLoop ==
  \E c \in 1..MaxSessions :
    \/ RunLoopTest(c) /\ UNCHANGED othersOfAn
    \/ (\E message \in RelayMessages : RunLoopMessage(c, message))
         /\ UNCHANGED othersOfAn
    \/ RunLoopFailed(c) /\ UNCHANGED othersOfAn
    \/ OnSignalingMessage(c) /\ UNCHANGED othersOfAn
    \/ SendAnswer(c) /\ UNCHANGED othersOfAn

\* the handler of signaling messages and the operations of the UI thread
NextAnswer == NextAnswerUi \/ NextAnswerLoop

(***************************************************************************)
(* SimpleReceiver: Start, Stop, AcceptLoop, ReceiveLoop and the clients    *)
(* that connect to it                                                      *)
(***************************************************************************)

\* the frame-channel thread the receive loop pushes as
ReceiveLoop == "p2"

\* no std::thread: the value of a thread object that is not joinable
NoReceiveThread == 0

\* the largest frame size the sanity check lets through
MaxFrameSize == 10 * 1024 * 1024

\* uint32_t frameSize as ReceiveExact stored it from 4 bytes (the target is
\* little-endian): its value is low when it is below 2^31 (wide is FALSE)
FrameSize(b) ==
  [wide |-> b[4] >= 128,
   low  |-> IF b[4] >= 128 THEN 0
            ELSE ((b[4] * 256 + b[3]) * 256 + b[2]) * 256 + b[1]]

\* a sanity check that lets an empty frame through
FrameSizeRejectedWhenLarge(size) == size.wide \/ size.low > MaxFrameSize

\* the sanity check: frameSize == 0 || frameSize > 10 * 1024 * 1024
FrameSizeRejected(size) == size.wide \/ size.low = 0 \/ size.low > MaxFrameSize

\* what clients write after they connect: length-prefixed records.  In
\* order: one record; one record and a zero header; two records; a zero
\* header; the header of a record one byte too large; the header of a
\* record of 2^31 bytes; the header of the largest record and no body; half
\* a header; a record cut in its body.
ClientStreams ==
  {<<1, 0, 0, 0, 7>>,
   <<1, 0, 0, 0, 7, 0, 0, 0, 0>>,
   <<1, 0, 0, 0, 7, 1, 0, 0, 0, 8>>,
   <<0, 0, 0, 0>>,
   <<1, 0, 160, 0>>,
   <<0, 0, 0, 128>>,
   <<0, 0, 160, 0>>,
   <<1, 0>>,
   <<2, 0, 0, 0, 7>>}

\* the stream of the clients that connect while Stop is called: a record
ShortStreams == {<<1, 0, 0, 0, 7>>}

\* a decoder that rejects its input
DecodeJPEGFails(jpeg) == FALSE

\* DecodeJPEG: the placeholder frame is made from jpeg.size() and true is
\* returned, whatever the bytes are
DecodeJPEG(jpeg) == TRUE

\* a receive thread that does not exist yet
NoLoop == [pc |-> "none", stage |-> "none", size |-> [wide |-> FALSE, low |-> 0],
           received |-> <<>>, socket |-> INVALID_SOCKET, records |-> 0]

\* the connection behind an accepted socket: what the client writes
\* (history), what of it has not arrived, what has arrived and was not
\* read, and whether the client has closed its end
Stream(socket, bytes) ==
  [socket |-> socket, sent |-> bytes, wire |-> bytes, inbox |-> <<>>,
   open |-> TRUE]

SimpleReceiverInit ==
  /\ receiver = [m_running |-> FALSE, m_listenSocket |-> INVALID_SOCKET,
                 m_clientSocket |-> INVALID_SOCKET, m_acceptThread |-> FALSE,
                 m_receiveThread |-> NoReceiveThread]
  /\ srPc = "idle"
  /\ srCalls = 0
  /\ acceptPc = "none"
  /\ client = INVALID_SOCKET
  /\ rx = [t \in 1..MaxClients |-> NoLoop]
  /\ srOpen = {}
  /\ srNext = 1
  /\ conn = <<>>
  /\ pending = <<>>
  /\ srLog = <<>>
  /\ srPushed = <<>>
  /\ srTerminated = FALSE

\* the threads of SimpleReceiver: the caller of Start / Stop, the accept
\* thread and receive thread t
CallerThread     == [thread |-> "caller", loop |-> 0]
AcceptThread     == [thread |-> "accept", loop |-> 0]
ReceiveThread(t) == [thread |-> "receive", loop |-> t]

\* m_stateCallback(state), called by thread `by`
StateCallback(state, by) == srLog' = Append(srLog, [state |-> state, by |-> by])

\* the receive threads that were started
Loops == {t \in 1..MaxClients : rx[t].pc # "none"}

\* the receive threads that have not returned from ReceiveLoop
LiveLoops == {t \in Loops : rx[t].pc # "done"}

\* Start, when socket, bind and listen succeed: the listening socket is
\* made, m_running is set, the accept thread starts and the callback gets
\* Connecting.  (Start returns true at once when m_running is set.)
StartListening ==
  /\ srPc = "idle"
  /\ ~srTerminated
  /\ srCalls < MaxCalls
  /\ srCalls' = srCalls + 1
  /\ IF receiver.m_running
       THEN UNCHANGED <<receiver, srOpen, srNext, acceptPc, srLog, srTerminated>>
       ELSE /\ srOpen' = srOpen \cup {srNext}
            /\ srNext' = srNext + 1
            /\ srTerminated' = receiver.m_acceptThread
            /\ receiver' = [receiver EXCEPT !.m_listenSocket = srNext,
                                            !.m_running = TRUE,
                                            !.m_acceptThread = TRUE]
            /\ acceptPc' = IF receiver.m_acceptThread THEN acceptPc ELSE "check"
            /\ StateCallback("Connecting", CallerThread)
  /\ UNCHANGED <<srPc, client, rx, conn, pending, srPushed>>

\* Start, when socket, bind or listen fails: nothing is left open and
\* false is returned
StartFails ==
  /\ srPc = "idle"
  /\ ~srTerminated
  /\ srCalls < MaxCalls
  /\ ~receiver.m_running
  /\ srCalls' = srCalls + 1
  /\ receiver' = [receiver EXCEPT !.m_listenSocket = INVALID_SOCKET]
  /\ UNCHANGED <<srPc, acceptPc, client, rx, srOpen, srNext, conn, pending,
                 srLog, srPushed, srTerminated>>

\* Stop: m_running = false
StopFlag ==
  /\ srPc = "idle"
  /\ ~srTerminated
  /\ srCalls < MaxCalls
  /\ srCalls' = srCalls + 1
  /\ receiver' = [receiver EXCEPT !.m_running = FALSE]
  /\ srPc' = "client"
  /\ UNCHANGED <<acceptPc, client, rx, srOpen, srNext, conn, pending, srLog,
                 srPushed, srTerminated>>

\* Stop: the client socket, if m_clientSocket holds one, is closed and
\* m_clientSocket is invalidated
StopClient ==
  /\ srPc = "client"
  /\ ~srTerminated
  /\ srOpen' = srOpen \ {receiver.m_clientSocket}
  /\ receiver' = [receiver EXCEPT !.m_clientSocket = INVALID_SOCKET]
  /\ srPc' = "listen"
  /\ UNCHANGED <<srCalls, acceptPc, client, rx, srNext, conn, pending, srLog,
                 srPushed, srTerminated>>

\* Stop: the listening socket, if m_listenSocket holds one, is closed and
\* m_listenSocket is invalidated; connections waiting on it are refused
StopListen ==
  /\ srPc = "listen"
  /\ ~srTerminated
  /\ srOpen' = srOpen \ {receiver.m_listenSocket}
  /\ receiver' = [receiver EXCEPT !.m_listenSocket = INVALID_SOCKET]
  /\ pending' = <<>>
  /\ srPc' = "joinAccept"
  /\ UNCHANGED <<srCalls, acceptPc, client, rx, srNext, conn, srLog, srPushed,
                 srTerminated>>

\* Stop: m_acceptThread.join(), if it is joinable
StopJoinAccept ==
  /\ srPc = "joinAccept"
  /\ ~srTerminated
  /\ IF receiver.m_acceptThread
       THEN /\ acceptPc = "done"
            /\ acceptPc' = "none"
            /\ receiver' = [receiver EXCEPT !.m_acceptThread = FALSE]
       ELSE UNCHANGED <<acceptPc, receiver>>
  /\ srPc' = "joinReceive"
  /\ UNCHANGED <<srCalls, client, rx, srOpen, srNext, conn, pending, srLog,
                 srPushed, srTerminated>>

\* Stop: m_receiveThread.join(), if it is joinable
StopJoinReceive ==
  /\ srPc = "joinReceive"
  /\ ~srTerminated
  /\ IF receiver.m_receiveThread # NoReceiveThread
       THEN /\ rx[receiver.m_receiveThread].pc = "done"
            /\ receiver' = [receiver EXCEPT !.m_receiveThread = NoReceiveThread]
       ELSE UNCHANGED receiver
  /\ srPc' = "notify"
  /\ UNCHANGED <<srCalls, acceptPc, client, rx, srOpen, srNext, conn, pending,
                 srLog, srPushed, srTerminated>>

\* Stop: the callback gets Disconnected and Stop returns
StopNotify ==
  /\ srPc = "notify"
  /\ ~srTerminated
  /\ StateCallback("Disconnected", CallerThread)
  /\ srPc' = "idle"
  /\ UNCHANGED <<receiver, srCalls, acceptPc, client, rx, srOpen, srNext, conn,
                 pending, srPushed, srTerminated>>

\* AcceptLoop: while (m_running && m_listenSocket != INVALID_SOCKET)
AcceptCheck ==
  /\ acceptPc = "check"
  /\ ~srTerminated
  /\ acceptPc' = IF receiver.m_running /\ receiver.m_listenSocket # INVALID_SOCKET
                   THEN "select" ELSE "done"
  /\ UNCHANGED <<receiver, srPc, srCalls, client, rx, srOpen, srNext, conn,
                 pending, srLog, srPushed, srTerminated>>

\* AcceptLoop: select on the listening socket returns: a connection is
\* waiting, or the second is over or the socket is not open (any result
\* that is not > 0 goes back to the loop test)
AcceptSelect ==
  /\ acceptPc = "select"
  /\ ~srTerminated
  /\ acceptPc' = IF receiver.m_listenSocket \in srOpen /\ pending # <<>>
                   THEN "accept" ELSE "check"
  /\ UNCHANGED <<receiver, srPc, srCalls, client, rx, srOpen, srNext, conn,
                 pending, srLog, srPushed, srTerminated>>

\* AcceptLoop: accept(m_listenSocket) returns a socket for the waiting
\* connection, or INVALID_SOCKET when the listening socket was closed
AcceptClient ==
  /\ acceptPc = "accept"
  /\ ~srTerminated
  /\ IF receiver.m_listenSocket \in srOpen /\ pending # <<>>
       THEN /\ client' = srNext
            /\ srNext' = srNext + 1
            /\ srOpen' = srOpen \cup {srNext}
            /\ conn' = Append(conn, Stream(srNext, Head(pending)))
            /\ pending' = Tail(pending)
            /\ acceptPc' = "previous"
       ELSE /\ client' = INVALID_SOCKET
            /\ acceptPc' = "check"
            /\ UNCHANGED <<srNext, srOpen, conn, pending>>
  /\ UNCHANGED <<receiver, srPc, srCalls, rx, srLog, srPushed, srTerminated>>

\* AcceptLoop: if m_clientSocket holds a socket it is closed, and the
\* receive thread is joined if it is joinable
AcceptPrevious ==
  /\ acceptPc = "previous"
  /\ ~srTerminated
  /\ IF receiver.m_clientSocket # INVALID_SOCKET
       THEN /\ srOpen' = srOpen \ {receiver.m_clientSocket}
            /\ acceptPc' = IF receiver.m_receiveThread # NoReceiveThread
                             THEN "join" ELSE "assign"
       ELSE /\ acceptPc' = "assign"
            /\ UNCHANGED srOpen
  /\ UNCHANGED <<receiver, srPc, srCalls, client, rx, srNext, conn, pending,
                 srLog, srPushed, srTerminated>>

\* AcceptLoop: m_receiveThread.join() returns
AcceptJoin ==
  /\ acceptPc = "join"
  /\ ~srTerminated
  /\ rx[receiver.m_receiveThread].pc = "done"
  /\ receiver' = [receiver EXCEPT !.m_receiveThread = NoReceiveThread]
  /\ acceptPc' = "assign"
  /\ UNCHANGED <<srPc, srCalls, client, rx, srOpen, srNext, conn, pending,
                 srLog, srPushed, srTerminated>>

\* AcceptLoop: m_clientSocket = client
AcceptAssign ==
  /\ acceptPc = "assign"
  /\ ~srTerminated
  /\ receiver' = [receiver EXCEPT !.m_clientSocket = client]
  /\ acceptPc' = "start"
  /\ UNCHANGED <<srPc, srCalls, client, rx, srOpen, srNext, conn, pending,
                 srLog, srPushed, srTerminated>>

\* AcceptLoop: the callback gets Connected and m_receiveThread is assigned
\* a new thread running ReceiveLoop; assigning to a std::thread that is
\* joinable calls std::terminate
AcceptStart ==
  /\ acceptPc = "start"
  /\ ~srTerminated
  /\ StateCallback("Connected", AcceptThread)
  /\ IF receiver.m_receiveThread # NoReceiveThread
       THEN /\ srTerminated' = TRUE
            /\ UNCHANGED <<receiver, rx, acceptPc>>
       ELSE LET t == Cardinality(Loops) + 1
            IN  /\ rx' = [rx EXCEPT ![t] = [NoLoop EXCEPT !.pc = "check"]]
                /\ receiver' = [receiver EXCEPT !.m_receiveThread = t]
                /\ acceptPc' = "check"
                /\ UNCHANGED srTerminated
  /\ UNCHANGED <<srPc, srCalls, client, srOpen, srNext, conn, pending, srPushed>>

\* the connection behind socket s, as an index of conn (0: none)
ConnOf(s) ==
  IF \E i \in 1..Len(conn) : conn[i].socket = s
    THEN CHOOSE i \in 1..Len(conn) : conn[i].socket = s
    ELSE 0

\* ReceiveLoop: while (m_running && m_clientSocket != INVALID_SOCKET); the
\* loop goes on with ReceiveExact for the 4 bytes of frameSize or ends
ReceiveCheck(t) ==
  /\ rx[t].pc = "check"
  /\ ~srTerminated
  /\ rx' = [rx EXCEPT ![t] =
              IF receiver.m_running /\ receiver.m_clientSocket # INVALID_SOCKET
                THEN [@ EXCEPT !.pc = "exact", !.stage = "header",
                               !.size = [wide |-> FALSE, low |-> 4],
                               !.received = <<>>]
                ELSE [@ EXCEPT !.pc = "callback"]]
  /\ UNCHANGED <<receiver, srPc, srCalls, acceptPc, client, srOpen, srNext,
                 conn, pending, srLog, srPushed, srTerminated>>

\* ReceiveExact: while (received < size && m_running) recv is called on
\* the socket m_clientSocket holds; otherwise received == size is returned.
\* With the header complete the sanity check is made and ReceiveExact is
\* called for the body; with the body complete DecodeJPEG makes the frame
\* and, if it returns true, Push is called.
ReceiveExact(t) ==
  /\ rx[t].pc = "exact"
  /\ ~srTerminated
  /\ LET r == rx[t]
         complete == ~r.size.wide /\ Len(r.received) = r.size.low
     IN  rx' = [rx EXCEPT ![t] =
           IF ~complete /\ receiver.m_running
             THEN [r EXCEPT !.pc = "recv", !.socket = receiver.m_clientSocket]
           ELSE IF ~complete THEN [r EXCEPT !.pc = "callback"]
           ELSE IF r.stage = "body"
             THEN [r EXCEPT !.pc = IF DecodeJPEG(r.received) THEN "push"
                                   ELSE "check"]
           ELSE IF FrameSizeRejected(FrameSize(r.received))
             THEN [r EXCEPT !.pc = "callback"]
           ELSE [r EXCEPT !.stage = "body", !.size = FrameSize(r.received),
                          !.received = <<>>]]
  /\ UNCHANGED <<receiver, srPc, srCalls, acceptPc, client, srOpen, srNext,
                 conn, pending, srLog, srPushed, srTerminated>>

\* ReceiveExact: recv returns.  It fails at once on a handle that is not an
\* open socket; it returns 0 when the client has closed its end and nothing
\* is left; otherwise it returns the bytes that have arrived, as many as
\* were asked for at most.  result <= 0 makes ReceiveExact return false.
ReceiveRecv(t) ==
  /\ rx[t].pc = "recv"
  /\ ~srTerminated
  /\ LET r == rx[t]
         i == ConnOf(r.socket)
     IN  IF r.socket \notin srOpen
           THEN /\ rx' = [rx EXCEPT ![t].pc = "callback"]
                /\ UNCHANGED conn
         ELSE IF conn[i].inbox # <<>>
           THEN LET n == IF r.size.wide THEN Len(conn[i].inbox)
                         ELSE Min(r.size.low - Len(r.received), Len(conn[i].inbox))
                IN  /\ rx' = [rx EXCEPT ![t].pc = "exact",
                                        ![t].received =
                                          @ \o SubSeq(conn[i].inbox, 1, n)]
                    /\ conn' = [conn EXCEPT ![i].inbox =
                                  SubSeq(@, n + 1, Len(@))]
         ELSE /\ ~conn[i].open
              /\ conn[i].wire = <<>>
              /\ rx' = [rx EXCEPT ![t].pc = "callback"]
              /\ UNCHANGED conn
  /\ UNCHANGED <<receiver, srPc, srCalls, acceptPc, client, srOpen, srNext,
                 pending, srLog, srPushed, srTerminated>>

\* ReceiveLoop: DecodeJPEG has made the frame (it always returns true) and
\* m_frameBuffer->Push is called with it
ReceivePush(t) ==
  /\ rx[t].pc = "push"
  /\ ~srTerminated
  /\ PushLock(ReceiveLoop)
  /\ rx' = [rx EXCEPT ![t].pc = "pushing", ![t].records = @ + 1]
  /\ srPushed' = Append(srPushed, [socket |-> rx[t].socket,
                                   record |-> rx[t].records + 1,
                                   frame |-> nextId])
  /\ UNCHANGED <<receiver, srPc, srCalls, acceptPc, client, srOpen, srNext,
                 conn, pending, srLog, srTerminated>>

\* ReceiveLoop: Push has returned
ReceivePushed(t) ==
  /\ rx[t].pc = "pushing"
  /\ ~srTerminated
  /\ pc[ReceiveLoop] = "idle"
  /\ rx' = [rx EXCEPT ![t].pc = "check"]
  /\ UNCHANGED <<receiver, srPc, srCalls, acceptPc, client, srOpen, srNext,
                 conn, pending, srLog, srPushed, srTerminated>>

\* ReceiveLoop: after the loop the callback gets Disconnected and the
\* thread ends
ReceiveCallback(t) ==
  /\ rx[t].pc = "callback"
  /\ ~srTerminated
  /\ StateCallback("Disconnected", ReceiveThread(t))
  /\ rx' = [rx EXCEPT ![t].pc = "done"]
  /\ UNCHANGED <<receiver, srPc, srCalls, acceptPc, client, srOpen, srNext,
                 conn, pending, srPushed, srTerminated>>

\* a client connects to the listening socket and writes its stream
ClientConnect(bytes) ==
  /\ receiver.m_listenSocket \in srOpen
  /\ pending = <<>>
  /\ Len(conn) < MaxClients
  /\ pending' = <<bytes>>
  /\ UNCHANGED <<receiver, srPc, srCalls, acceptPc, client, rx, srOpen, srNext,
                 conn, srLog, srPushed, srTerminated>>

\* the network hands bytes the client wrote to the socket, while it is
\* open: the next one, or all that are left
ClientDeliver(i, all) ==
  /\ i \in 1..Len(conn)
  /\ conn[i].socket \in srOpen
  /\ conn[i].wire # <<>>
  /\ LET n == IF all THEN Len(conn[i].wire) ELSE 1
     IN  conn' = [conn EXCEPT ![i].inbox = @ \o SubSeq(conn[i].wire, 1, n),
                             ![i].wire = SubSeq(@, n + 1, Len(@))]
  /\ UNCHANGED <<receiver, srPc, srCalls, acceptPc, client, rx, srOpen, srNext,
                 pending, srLog, srPushed, srTerminated>>

\* the client closes the connection after its stream: recv returns 0 once
\* everything it wrote was read
ClientClose(i) ==
  /\ i \in 1..Len(conn)
  /\ conn[i].socket \in srOpen
  /\ conn[i].wire = <<>>
  /\ conn[i].open
  /\ conn' = [conn EXCEPT ![i].open = FALSE]
  /\ UNCHANGED <<receiver, srPc, srCalls, acceptPc, client, rx, srOpen, srNext,
                 pending, srLog, srPushed, srTerminated>>

\* the thread that calls Start and Stop
NextStartStop ==
  \/ StartListening /\ UNCHANGED othersOfSr
  \/ StartFails /\ UNCHANGED othersOfSr
  \/ StopFlag /\ UNCHANGED othersOfSr
  \/ StopClient /\ UNCHANGED othersOfSr
  \/ StopListen /\ UNCHANGED othersOfSr
  \/ StopJoinAccept /\ UNCHANGED othersOfSr
  \/ StopJoinReceive /\ UNCHANGED othersOfSr
  \/ StopNotify /\ UNCHANGED othersOfSr

\* the accept thread
NextAcceptLoop ==
  \/ AcceptCheck /\ UNCHANGED othersOfSr
  \/ AcceptSelect /\ UNCHANGED othersOfSr
  \/ AcceptClient /\ UNCHANGED othersOfSr
  \/ AcceptPrevious /\ UNCHANGED othersOfSr
  \/ AcceptJoin /\ UNCHANGED othersOfSr
  \/ AcceptAssign /\ UNCHANGED othersOfSr
  \/ AcceptStart /\ UNCHANGED othersOfSr

\* the receive threads
NextReceiveLoop ==
  \/ (\E t \in 1..MaxClients : ReceiveCheck(t)) /\ UNCHANGED othersOfSr
  \/ (\E t \in 1..MaxClients : ReceiveExact(t)) /\ UNCHANGED othersOfSr
  \/ (\E t \in 1..MaxClients : ReceiveRecv(t)) /\ UNCHANGED othersOfSr
  \/ (\E t \in 1..MaxClients : ReceivePush(t)) /\ UNCHANGED othersOfSrPush
  \/ PushEvict(ReceiveLoop) /\ UNCHANGED <<srVars, othersOfSrPush>>
  \/ PushInsert(ReceiveLoop) /\ UNCHANGED <<srVars, othersOfSrPush>>
  \/ (\E t \in 1..MaxClients : ReceivePushed(t)) /\ UNCHANGED othersOfSr
  \/ (\E t \in 1..MaxClients : ReceiveCallback(t)) /\ UNCHANGED othersOfSr

\* clients that write one of `streams`, which arrives byte by byte or, when
\* `whole` is TRUE only, in one piece
NextClients(streams, whole) ==
  \/ (\E bytes \in streams : ClientConnect(bytes)) /\ UNCHANGED othersOfSr
  \/ (\E i \in 1..MaxClients, all \in whole : ClientDeliver(i, all))
       /\ UNCHANGED othersOfSr
  \/ (\E i \in 1..MaxClients : ClientClose(i)) /\ UNCHANGED othersOfSr

\* a receiver that is started and one client, which writes any of
\* ClientStreams
NextReceiving ==
  \/ StartListening /\ UNCHANGED othersOfSr
  \/ AcceptCheck /\ UNCHANGED othersOfSr
  \/ AcceptSelect /\ UNCHANGED othersOfSr
  \/ AcceptClient /\ UNCHANGED othersOfSr
  \/ AcceptPrevious /\ UNCHANGED othersOfSr
  \/ AcceptAssign /\ UNCHANGED othersOfSr
  \/ AcceptStart /\ UNCHANGED othersOfSr
  \/ NextReceiveLoop
  \/ (\E bytes \in ClientStreams : conn = <<>> /\ ClientConnect(bytes))
       /\ UNCHANGED othersOfSr
  \/ (\E all \in BOOLEAN : ClientDeliver(1, all)) /\ UNCHANGED othersOfSr
  \/ ClientClose(1) /\ UNCHANGED othersOfSr

\* Start and Stop called at any moment while clients connect
NextSimpleReceiver ==
  \/ NextStartStop
  \/ NextAcceptLoop
  \/ NextReceiveLoop
  \/ NextClients(ShortStreams, {TRUE})

\* the components outside the frame channel and the session, not in use
ExtInit ==
  /\ WriteFrameInit
  /\ ReadFrameInit
  /\ ConnectInit
  /\ CameraInit
  /\ AnswerInit
  /\ LifecycleInit
  /\ SimpleReceiverInit


(***************************************************************************)
(* Specifications                                                          *)
(***************************************************************************)

\* the frame channel with its producer and consumer threads, for every
\* capacity the constructor accepts
InitFB == FrameBufferInit /\ SignalingClientInit /\ ExtInit

SpecFB == InitFB /\ [][NextFB]_vars

\* the signaling session with its caller, its receive thread and the peer
InitSC ==
  FrameBufferInit /\ m_maxFrames = MaxCapacity /\ SignalingClientInit /\ ExtInit

SpecSC == InitSC /\ [][NextSC]_vars

\* the same, where the scheduler lets every thread that can take a step take
\* it eventually: the receive thread inside RunLoop and the caller inside a
\* Connect or Disconnect it has begun.  Nothing obliges the caller to begin
\* a call or the peer to send or close.
FairSpecSC ==
  /\ SpecSC
  /\ WF_vars(LoopCheck /\ UNCHANGED <<fbVars, txVars, extVars>>)
  /\ WF_vars(LoopCheckSocket /\ UNCHANGED <<fbVars, txVars, extVars>>)
  /\ WF_vars(LoopRead /\ UNCHANGED <<fbVars, txVars, extVars>>)
  /\ WF_vars(LoopPayload /\ UNCHANGED <<fbVars, txVars, extVars>>)
  /\ WF_vars((\E o \in HandshakeOutcomes : PerformHandshake(o))
               /\ UNCHANGED <<fbVars, txVars, extVars>>)
  /\ WF_vars(StartThread /\ UNCHANGED <<fbVars, txVars, extVars>>)
  /\ WF_vars(DisconnectClose /\ UNCHANGED <<fbVars, txVars, extVars>>)
  /\ WF_vars(DisconnectInvalidate /\ UNCHANGED <<fbVars, txVars, extVars>>)
  /\ WF_vars(DisconnectJoin /\ UNCHANGED <<fbVars, txVars, extVars>>)
  /\ WF_vars(DisconnectNotify /\ UNCHANGED <<fbVars, txVars, extVars>>)

\* the session with threads that call SendAnswer / SendIceCandidate while the
\* caller connects and disconnects; the peer only closes the stream
NextSendSession ==
  \/ NextCaller
  \/ LoopCheck /\ UNCHANGED <<fbVars, txVars, extVars>>
  \/ LoopCheckSocket /\ UNCHANGED <<fbVars, txVars, extVars>>
  \/ LoopRead /\ UNCHANGED <<fbVars, txVars, extVars>>
  \/ PeerClose /\ UNCHANGED <<fbVars, txVars, extVars>>
  \/ NextTX

SpecTX == InitSC /\ [][NextSendSession]_vars


\* WriteFrame called with every payload of Payloads
InitWriteFrame ==
  /\ FrameBufferInit /\ m_maxFrames = MaxCapacity
  /\ SignalingClientInit
  /\ data \in Payloads
  /\ encoded = <<>>
  /\ wfPc = "opcode"
  /\ ReadFrameInit
  /\ ConnectInit
  /\ CameraInit
  /\ AnswerInit
  /\ LifecycleInit
  /\ SimpleReceiverInit

SpecWriteFrame == InitWriteFrame /\ [][NextWriteFrame]_vars

\* ReadFrame called by RunLoop on every stream of SentFrames, which arrives
\* byte by byte and can be lost at any moment
InitReadFrame ==
  /\ FrameBufferInit /\ m_maxFrames = MaxCapacity
  /\ SignalingClientInit
  /\ WriteFrameInit
  /\ ConnectInit
  /\ CameraInit
  /\ AnswerInit
  /\ LifecycleInit
  /\ SimpleReceiverInit
  /\ sentFrame \in SentFrames
  /\ wire = sentFrame.bytes \o sentFrame.following
  /\ arrived = <<>>
  /\ wireOpen = TRUE
  /\ rfPc = "idle"
  /\ rfLen = Narrow(0)
  /\ rfPayload = <<>>
  /\ rfRet = NoReturn
  /\ handled = <<>>
  /\ rfCalls = 0

SpecReadFrame == InitReadFrame /\ [][NextReadFrame]_vars

\* Connect called with every address of Addresses and every room, the peer
\* answering with one of Responses
InitConnect ==
  /\ FrameBufferInit /\ m_maxFrames = MaxCapacity
  /\ SignalingClientInit
  /\ WriteFrameInit
  /\ ReadFrameInit
  /\ CameraInit
  /\ AnswerInit
  /\ LifecycleInit
  /\ SimpleReceiverInit
  /\ address \in Addresses
  /\ url = AddressText(address)
  /\ room \in Rooms
  /\ peerResponse \in Responses
  /\ host = DefaultHost
  /\ port = DefaultPort
  /\ path = DefaultPath
  /\ cxPc = "parse"
  /\ target = NoTarget
  /\ request = NoRequest
  /\ buffer = <<>>
  /\ cxSocket = "none"
  /\ cxState = "Disconnected"
  /\ cxRet = "none"

SpecConnect == InitConnect /\ [][NextConnect]_vars

\* the application connecting and disconnecting relay sessions while frames
\* arrive and FrameLoop hands them to the shared region
InitCamera ==
  /\ FrameBufferInit /\ m_maxFrames = MaxCapacity
  /\ SignalingClientInit
  /\ ExtInit

SpecApplication == InitCamera /\ [][NextApplication]_vars

\* one relay session in which frames arrive, FrameLoop hands them to the
\* shared region and the filter reads it
SpecCamera == InitCamera /\ [][NextCamera]_vars

\* SimpleReceiver from its construction, with a frame channel of one frame:
\* a thread that calls Start and Stop, the accept thread, the receive
\* threads and clients that connect, write their stream and close
InitSimpleReceiver ==
  /\ FrameBufferInit /\ m_maxFrames = 1
  /\ SignalingClientInit
  /\ ExtInit

SpecReceiving == InitSimpleReceiver /\ [][NextReceiving]_vars

SpecSimpleReceiver == InitSimpleReceiver /\ [][NextSimpleReceiver]_vars

\* the application from its construction to its destruction: the UI
\* thread connects, disconnects and shuts down while frames arrive
SpecLifecycle == InitCamera /\ [][NextLifecycle]_vars

\* signaling messages arriving on the sessions the UI thread connects,
\* replaces and disconnects
SpecAnswer == InitCamera /\ [][NextAnswer]_vars

\* SpecLifecycle with threads that are scheduled and a clock that advances:
\* the FrameLoop thread takes a step it can take, the receiver finishes a
\* Push it has begun, time passes for a Pop that waits, and the UI thread
\* returns from a join that can return
FairSpecLifecycle ==
  /\ SpecLifecycle
  /\ WF_vars(\/ FrameLoopCheck /\ UNCHANGED othersOfVc
             \/ FrameLoopPopCounted /\ UNCHANGED <<scVars, wfVars, rfVars, cxVars, srVars, anVars>>
             \/ FrameLoopWake /\ UNCHANGED othersOfCamera
             \/ FrameLoopTimeout /\ UNCHANGED othersOfCamera
             \/ NextPushFrame)
  /\ WF_vars((PushEvict(Receiver) \/ PushInsert(Receiver))
               /\ UNCHANGED <<vcVars, othersOfCamera>>)
  /\ WF_vars(Tick /\ UNCHANGED <<vcVars, othersOfCamera>>)
  /\ WF_vars(CameraJoin /\ UNCHANGED othersOfLifecycle)


(***************************************************************************)
(* Properties of FrameBuffer                                               *)
(***************************************************************************)

\* frames that have been inserted into the queue so far
Inserted == (1..(nextId - 1)) \ {pushing[p] : p \in Producers}

\* the elements of a sequence
Range(q) == {q[i] : i \in 1..Len(q)}

\* a Push by p returns in this step
PushReturns(p) == pc[p] = "evict" /\ pc'[p] = "idle"

\* a blocked Pop by c returns false in this step
PopReturnsFalse(c) ==
  pc[c] = "waiting" /\ pc'[c] = "idle" /\ ret'[c] = "pop_false"

\* C1: for a FrameBuffer constructed with maxFrames >= 1 the number of stored
\* frames is at most maxFrames in every reachable state, under any interleaving
\* of Push, Pop, Peek and Clear by the producer and consumer threads.
C1_SizeWithinCapacity == m_maxFrames >= 1 => Len(m_frames) <= m_maxFrames

\* a full queue after both a Pop and an eviction by Push have happened
C1_Witness ==
  /\ m_maxFrames >= 1
  /\ Len(m_frames) = m_maxFrames
  /\ dropped # {}
  /\ poppedSeq # <<>>

\* C2: a Push that found exactly m_maxFrames frames leaves the previous
\* sequence without its oldest frame followed by the pushed frame: exactly the
\* oldest frame is evicted, the others keep their order, the length stays
\* m_maxFrames.
C2_PushOnFullDropsOldest ==
  [][\A p \in Producers :
       (PushReturns(p) /\ Len(entry[p]) = m_maxFrames) =>
          /\ entry[p] # <<>>
          /\ m_frames' = Append(Tail(entry[p]), pushing[p])
          /\ Len(m_frames') = m_maxFrames
          /\ entry[p][1] \in dropped'
          /\ \A i \in 2..Len(entry[p]) : entry[p][i] \notin dropped']_vars

\* a Push of frame 3 found the full queue <<1, 2>>, has evicted frame 1 and is
\* about to insert frame 3 behind the survivor
C2_Witness ==
  \E p \in Producers :
    /\ m_maxFrames = 2
    /\ pc[p] = "evict"
    /\ entry[p] = <<1, 2>>
    /\ pushing[p] = 3
    /\ m_frames = <<2>>
    /\ dropped = {1}

C4_EveryFramePoppedExactlyOnce ==
  /\ \A i, j \in 1..Len(poppedSeq) : i # j => poppedSeq[i] # poppedSeq[j]
  /\ \A f \in Inserted : f \in Range(poppedSeq) \/ f \in Range(m_frames)

\* C4 as amended: no frame is returned by two Pops; every pushed frame is in
\* exactly one of three conditions: resident, returned by one Pop, or dropped
\* (evicted by a later Push or removed by Clear); a dropped frame is never
\* returned.
C4_EveryFramePoppedAtMostOnce ==
  /\ \A i, j \in 1..Len(poppedSeq) : i # j => poppedSeq[i] # poppedSeq[j]
  /\ \A f \in Inserted :
       Cardinality({k \in {"resident", "popped", "dropped"} :
          \/ k = "resident" /\ f \in Range(m_frames)
          \/ k = "popped" /\ f \in Range(poppedSeq)
          \/ k = "dropped" /\ f \in dropped}) = 1

\* both consumers have returned a frame from Pop while another frame was
\* dropped and never returned
C4_Witness ==
  /\ Len(poppedSeq) = 2
  /\ dropped # {}
  /\ \A c \in Consumers : ret[c] = "pop_true"

\* C5: a Pop blocked on an empty channel returns false only once its timeout
\* has elapsed, never earlier; the return leaves the (empty) channel and the
\* caller's output frame as they were.
C5_TimeoutNotEarly ==
  [][\A c \in Consumers :
       PopReturnsFalse(c) =>
          /\ elapsed[c] >= timeoutMs[c]
          /\ m_frames = <<>>
          /\ m_frames' = m_frames
          /\ frame' = frame]_vars

\* a Pop with a timeout of at least one tick has returned false after waiting
\* that long, and the caller still holds the frame of an earlier Pop
C5_Witness ==
  \E c \in Consumers :
    /\ pc[c] = "idle"
    /\ ret[c] = "pop_false"
    /\ timeoutMs[c] >= 1
    /\ elapsed[c] = timeoutMs[c]
    /\ frame[c] # NoFrame
    /\ frame[c] \in Range(poppedSeq)

\* C6: no lost wake-up. A Push that finds consumers blocked unblocks one of
\* them; an unblocked consumer can resume as soon as the mutex is free; a
\* blocked Pop that ends while a frame is resident returns true with the
\* oldest frame, also when its deadline has passed; a Pop called on a
\* non-empty channel returns a frame in the same step, for every timeout.
C6_NoLostWakeup ==
  /\ [](\A c \in notified :
          pc[c] = "waiting" /\
          (m_mutex = NoThread => ENABLED (PopWake(c) \/ PopTimeout(c))))
  /\ [][/\ \A p \in Producers :
             (PushReturns(p) /\ Waiters # {}) =>
                \E c \in Waiters : c \in notified'
        /\ \A c \in Consumers :
             (pc[c] = "waiting" /\ pc'[c] = "idle" /\ m_frames # <<>>) =>
                ret'[c] = "pop_true" /\ frame'[c] = m_frames[1]
        /\ \A c \in Consumers : \A t \in Timeouts :
             (PopCall(c, t) /\ m_frames # <<>>) =>
                ret'[c] = "pop_true" /\ frame'[c] = m_frames[1] /\ pc'[c] = "idle"]_vars

\* a consumer blocked on the empty channel has been unblocked by a Push before
\* its deadline; the pushed frame is resident and the mutex is free
C6_Witness ==
  \E c \in Consumers :
    /\ pc[c] = "waiting"
    /\ c \in notified
    /\ elapsed[c] < timeoutMs[c]
    /\ m_frames = <<1>>
    /\ m_mutex = NoThread

\* C7: Peek on a non-empty channel copies the newest frame to the caller and
\* leaves the stored sequence as it is (the front, which the next Pop returns,
\* included); Peek on an empty channel returns false and changes nothing.
C7_PeekNewestNoEffect ==
  [][\A c \in Consumers :
       Peek(c) =>
          /\ m_frames' = m_frames
          /\ poppedSeq' = poppedSeq /\ dropped' = dropped
          /\ IF m_frames = <<>>
               THEN ret'[c] = "peek_false" /\ frame' = frame
               ELSE /\ ret'[c] = "peek_true"
                    /\ frame'[c] = m_frames[Len(m_frames)]
                    /\ ENABLED PopCall(c, 0)]_vars

\* a consumer has peeked the newest of two resident frames
C7_Witness ==
  \E c \in Consumers :
    /\ ret[c] = "peek_true"
    /\ Len(m_frames) = 2
    /\ frame[c] = m_frames[2]
    /\ frame[c] # m_frames[1]

\* C8: a Push in progress always completes: it has neither aborted nor entered
\* an endless loop, and whenever its eviction loop has to run once more there
\* is a frame to evict, so the loop ends after at most size() iterations; this
\* for every capacity the constructor accepts.
C8_PushAlwaysCompletes ==
  \A p \in Producers :
    /\ pc[p] \in {"idle", "evict"}
    /\ (pc[p] = "evict" /\ IsFull(m_frames)) => m_frames # <<>>

\* C9: one Push unblocks at most one blocked consumer; consumers that have
\* returned true hold different frames (the pushed frame goes to one of them);
\* a blocked consumer that finds the channel empty keeps waiting, or returns
\* false once its timeout has elapsed.
C9_PushWakesAtMostOne ==
  /\ [](\A c, d \in Consumers :
          (c # d /\ ret[c] = "pop_true" /\ ret[d] = "pop_true") =>
             frame[c] # frame[d])
  /\ [][/\ \A p \in Producers :
             PushReturns(p) =>
                /\ notified \subseteq notified'
                /\ Cardinality(notified' \ notified) <= 1
        /\ \A c \in Consumers :
             (pc[c] = "waiting" /\ m_frames = <<>>) =>
                \/ pc'[c] = "waiting"
                \/ ret'[c] = "pop_false" /\ elapsed[c] >= timeoutMs[c]]_vars

\* two consumers are blocked on the empty channel; the one Push so far has
\* unblocked one of them and left the other blocked
C9_Witness ==
  /\ nextId = 2
  /\ m_frames = <<1>>
  /\ \A c \in Consumers : pc[c] = "waiting"
  /\ Cardinality(notified) = 1

(***************************************************************************)
(* Properties of SignalingClient                                           *)
(***************************************************************************)

\* the state changes the session's state diagram allows:
\* Disconnected -> Connecting -> {Connected, Error}, Connected -> {Disconnected, Error}
StateDiagram ==
  { <<"Disconnected", "Connecting">>,
    <<"Connecting", "Connected">>,
    <<"Connecting", "Error">>,
    <<"Connected", "Disconnected">>,
    <<"Connected", "Error">> }

\* C10: the session state starts at Disconnected and changes only along
\* Disconnected -> Connecting -> Connected -> {Disconnected, Error}: a Connect
\* attempt passes through Connecting before the state becomes Connected or
\* Error, and Connected is entered from Connecting only.
C10_StateFollowsDiagram ==
  /\ m_state = "Disconnected"
  /\ [][m_state' # m_state => <<m_state, m_state'>> \in StateDiagram]_vars

\* the first Connect of a session has succeeded and its receive thread runs
C10_Witness ==
  /\ calls = 1
  /\ m_state = "Connected"
  /\ stateLog = <<"Connected">>
  /\ loopPc = "header"

\* the step in which the caller's Connect returns false
ConnectReturnsFalse ==
  \/ appPc = "idle" /\ appPc' = "idle" /\ calls' = calls + 1
  \/ appPc = "handshake" /\ appPc' = "idle"

\* the step in which the caller's Connect reaches its end, after a handshake
\* that succeeded
ConnectEnds == appPc = "start" /\ appPc' = "idle"

\* C11: when the transport opens and the handshake succeeds, Connect sets the
\* state to Connected, starts exactly one receive thread and returns true;
\* the state callback is called with Connected exactly once for the attempt.
C11_ConnectSucceeds ==
  [][/\ (appPc = "idle" /\ appPc' = "handshake") => stateLog' = stateLog
     /\ (appPc = "handshake" /\ appPc' = "start") =>
           /\ m_state' = "Connected"
           /\ stateLog' = Append(stateLog, "Connected")
     /\ ConnectEnds =>
           /\ ~terminated'
           /\ connectRet' = "true"
           /\ m_state' = "Connected"
           /\ stateLog' = stateLog
           /\ m_thread' /\ loopPc' = "check"
           /\ spawned' = spawned + 1]_vars

\* C12: when Connect fails at any step it returns false, the state is Error,
\* no receive thread is started, and the session holds no open transport:
\* m_socket is INVALID_SOCKET and no handle the process opened is left open.
C12_ConnectFailureLeavesNothingOpen ==
  [][ConnectReturnsFalse =>
       /\ connectRet' = "false"
       /\ m_state' = "Error"
       /\ spawned' = spawned /\ m_thread' = m_thread
       /\ m_socket' = INVALID_SOCKET
       /\ openSockets' = {}]_vars

\* C13: once a recv of the receive thread has failed or returned 0 bytes
\* (a decode failure or the peer's close), the loop exits: the thread makes
\* no further read on the transport, without any call to Disconnect.
C13_NoReadAfterFailedRead ==
  readFailed => loopPc \notin {"header", "payload"}

\* C14: when the receive thread's read fails or returns end-of-stream while
\* the session is Connected, the state eventually leaves Connected and
\* becomes Error or Disconnected: from a state in which the session is
\* Connected, its connection is at end-of-stream and a read of the receive
\* thread has returned <= 0, the state leaves Connected (unless the process
\* has been terminated).
C14_LostConnectionLeavesConnected ==
  []((/\ m_state = "Connected"
      /\ readFailed
      /\ m_socket = Connection /\ Connection \in openSockets
      /\ ~peerOpen /\ inbox = <<>> /\ inflight = <<>>)
       => <>(m_state \in {"Error", "Disconnected"} \/ terminated))

\* C15: concurrent Send calls exclude each other: at most one thread is
\* inside Send's critical section, and the pieces of each frame reach the
\* transport as one contiguous run, header first, never with a piece of
\* another frame in between.
C15_FramesNotInterleaved ==
  /\ \A s, t \in Senders :
        s # t => sendPc[s] = "idle" \/ sendPc[t] = "idle"
  /\ \A i, j \in 1..Len(sent) :
        i < j /\ sent[i][1] = sent[j][1]
          => \A k \in i..j : sent[k][1] = sent[i][1]
  /\ \A i \in 1..Len(sent) :
        sent[i][2] = "payload"
          => i > 1 /\ sent[i - 1] = <<sent[i][1], "header">>

\* two threads have each sent a whole frame on the connected session, the
\* second one after the first released m_sendMutex
C15_Witness ==
  /\ sendFrame["s1"] = 2
  /\ sendFrame["s2"] = 1
  /\ sent = << <<1, "header">>, <<1, "payload">>,
               <<2, "header">>, <<2, "payload">> >>

\* the place of a message in the order the peer framed the messages, 0 when
\* the peer framed no such message
FramedAt(message) ==
  IF \E i \in 1..Len(framed) : framed[i] = message
    THEN CHOOSE i \in 1..Len(framed) : framed[i] = message
    ELSE 0

\* C16: every non-empty message the peer framed while the session is
\* Connected reaches the message handler exactly once and in wire order:
\* what the handler has been given so far is, call by call, a message the
\* peer framed, each one once and later than the one before.
C16_DeliveredOnceInOrder ==
  /\ \A i \in 1..Len(delivered) : FramedAt(delivered[i]) > 0
  /\ \A i, j \in 1..Len(delivered) :
        i < j => FramedAt(delivered[i]) < FramedAt(delivered[j])

\* Disconnect has returned and the caller has begun nothing since
DisconnectReturned ==
  /\ appPc = "idle"
  /\ stateLog # <<>>
  /\ stateLog[Len(stateLog)] = "Disconnected"

C18_DisconnectReturns ==
  [](appPc = "close" => <>(appPc = "idle"))

\* a step of Connect: ConnectSocket, or PerformHandshake and what follows it
ConnectStep ==
  \/ appPc = "idle" /\ calls' = calls + 1 /\ appPc' \in {"idle", "handshake"}
  \/ appPc = "handshake"

\* C19 as claimed: Error and Disconnected are terminal: once the state is
\* Error or Disconnected it does not change until a new Connect is issued,
\* whatever is called.
C19_ErrorAndDisconnectedTerminal ==
  [][(m_state \in {"Error", "Disconnected"} /\ m_state' # m_state)
       => ConnectStep]_vars

\* C19 as the code has it: Disconnected changes only by a new Connect; Error
\* changes only by a new Connect or, to Disconnected, by Disconnect.  No
\* step of the receive thread or of the peer changes either.
C19_TerminalUntilConnectOrDisconnect ==
  [][/\ (m_state = "Disconnected" /\ m_state' # m_state) => ConnectStep
     /\ (m_state = "Error" /\ m_state' # m_state) =>
           (ConnectStep \/ (appPc = "notify" /\ m_state' = "Disconnected"))
    ]_vars

\* a failed Connect has left the state Error, and a Disconnect called on
\* the session in that state has set it to Disconnected
C19_Witness ==
  /\ stateLog = <<"Error", "Disconnected">>
  /\ m_state = "Disconnected"
  /\ appPc = "idle"

\* C20: over any sequence of Connect and Disconnect calls, Connect called
\* twice in a row included, at most one transport of the session is open and
\* it is the one m_socket holds, no receive thread is started while an
\* earlier one is unjoined (the std::thread assignment would terminate the
\* process), and every Connect starts at most one thread.
C20_OneTransportOneThread ==
  /\ [](/\ ~terminated
        /\ Cardinality(openSockets) <= 1
        /\ openSockets \subseteq {m_socket})
  /\ [][spawned' \in {spawned, spawned + 1}]_vars
  /\ [][(appPc = "idle" /\ appPc' = "handshake") =>
          (openSockets = {} /\ ~m_thread)]_vars

(***************************************************************************)
(* Properties of the frame codec                                           *)
(***************************************************************************)

\* the number of extended-length bytes the format has for a payload of n bytes
ExtendedLengthBytes(n) == IF n <= 125 THEN 0 ELSE IF n <= 65535 THEN 2 ELSE 8

\* the position in a frame (from 1) of the last byte before the masked payload
PayloadOffset(n) == 2 + ExtendedLengthBytes(n) + 4

\* the 4 bytes a frame for a payload of n bytes carries before the payload
KeyOf(bytes, n) == SubSeq(bytes, PayloadOffset(n) - 3, PayloadOffset(n))

\* C21: for every payload of length n the encoder emits 0x81; then 0x80|n
\* if n <= 125, or 0xFE and n as 2 big-endian bytes if 126 <= n <= 65535, or
\* 0xFF and n as 8 big-endian bytes otherwise; then a 4-byte mask key; then
\* exactly n bytes, byte i being payload[i] XOR key[i mod 4].  The frame is
\* n + 6, n + 8 or n + 14 bytes long.
C21_EncodedLayout ==
  wfPc = "send" =>
    LET n   == Len(data)
        key == KeyOf(encoded, n)
    IN  /\ encoded[1] = 129
        /\ (n <= 125) => (encoded[2] = 128 + n /\ Len(encoded) = n + 6)
        /\ (n >= 126 /\ n <= 65535) =>
             /\ encoded[2] = 254
             /\ encoded[3] * 256 + encoded[4] = n
             /\ Len(encoded) = n + 8
        /\ (n > 65535) =>
             /\ encoded[2] = 255
             /\ \A k \in 3..6 : encoded[k] = 0
             /\ encoded[7] < 128
             /\ ((encoded[7] * 256 + encoded[8]) * 256 + encoded[9]) * 256
                  + encoded[10] = n
             /\ Len(encoded) = n + 14
        /\ key \in [1..4 -> Bytes]
        /\ \A i \in 0..(n - 1) :
             encoded[PayloadOffset(n) + i + 1] = Xor8(data[i + 1], key[(i % 4) + 1])

\* WriteFrame has built the frame of the shortest payload whose length does
\* not fit the 7-bit field
C21_Witness == wfPc = "send" /\ Len(data) = 126 /\ Len(encoded) = 134

\* C23: XOR-ing the masked payload bytes of the encoded frame with
\* K[i mod 4], K being the 4-byte key written into the frame, reproduces
\* the payload byte at every index i.
C23_UnmaskRestoresPayload ==
  wfPc = "send" =>
    LET n == Len(data)
        K == KeyOf(encoded, n)
    IN  \A i \in 0..(n - 1) :
          Xor8(encoded[PayloadOffset(n) + i + 1], K[(i % 4) + 1]) = data[i + 1]

\* WriteFrame has built the frame of a payload longer than the key, whose
\* masked bytes differ from the payload
C23_Witness ==
  /\ wfPc = "send"
  /\ Len(data) = 125
  /\ \E i \in 1..125 : encoded[PayloadOffset(125) + i] # data[i]

\* the first ReadFrame call on the stream has returned
FirstReadReturned == rfCalls = 1 /\ rfPc = "idle"

\* the returned string holds received bytes only: none of its bytes is a
\* zero left by resize, and its length fits what a stream can have carried
ReceivedAll(r) == ~r.size.wide /\ Len(r.bytes) = r.size.low

\* C22: round trip: feeding the bytes WriteFrame produces for a payload to
\* ReadFrame yields exactly that payload (no read of the call being short
\* or failed, the connection being up).
C22_RoundTrip ==
  (/\ sentFrame.origin = "client"
   /\ FirstReadReturned
   /\ ~rfRet.failed
   /\ wireOpen)
    => (ReceivedAll(rfRet) /\ rfRet.bytes = sentFrame.payload)

\* C24: a short or failed read in the header, the extended length field or
\* the payload makes ReadFrame return the "no message" result, the empty
\* string, and no string returned by such a call is passed to the handler.
C24_FailedReadYieldsNoMessage ==
  /\ rfRet.failed => rfRet.size = Narrow(0)
  /\ \A i \in 1..Len(handled) : ~handled[i].failed

\* C25: for an unmasked frame whose header and length field were read
\* completely, ReadFrame returns exactly the announced number of payload
\* bytes, in stream order, however the payload arrives, and leaves every
\* byte that follows the frame in the stream (the connection being up).
C25_AnnouncedPayloadReturned ==
  (/\ sentFrame.origin = "server"
   /\ FirstReadReturned
   /\ rfRet.stage = "payload"
   /\ wireOpen)
    => /\ rfRet.size = sentFrame.announced
       /\ ReceivedAll(rfRet)
       /\ rfRet.bytes = sentFrame.payload
       /\ arrived \o wire = sentFrame.following

(***************************************************************************)
(* Properties of Connect and the handshake                                 *)
(***************************************************************************)

\* Connect has returned after PerformHandshake was run
HandshakeDone == cxPc = "done" /\ request # NoRequest

\* C26: the handshake succeeds only when the peer's response carries status
\* 101: a response with another status, a truncated or empty response or a
\* closed stream makes it fail; after a failed handshake the transport is
\* closed.
C26_SuccessOnlyOnStatus101 ==
  /\ (HandshakeDone /\ cxRet = TRUE) => peerResponse.status = "101"
  /\ (HandshakeDone /\ cxRet = FALSE) => cxSocket = "closed"

\* the host, port and path an address stands for, port and path defaulted
AddressedHost == address.host
AddressedPort == IF address.port = <<>> THEN 8080 ELSE Stoi(address.port)
AddressedPath == IF address.path = <<>> THEN <<"/">> ELSE address.path

\* C27: Connect(address, room) targets the host, port and path parsed from
\* the address, port and path defaulted when absent, and requests the path
\* <path>?room=<room>&role=receiver; Connect("host:1234/ws", "roomA")
\* connects to host:1234 and requests /ws?room=roomA&role=receiver.
C27_TargetsParsedAddress ==
  /\ (target # NoTarget) =>
       (target.host = AddressedHost /\ target.port = AddressedPort)
  /\ (request # NoRequest) =>
       request.path = AddressedPath \o <<"?", "r", "o", "o", "m", "=">> \o room
         \o <<"&", "r", "o", "l", "e", "=", "r", "e", "c", "e", "i", "v", "e", "r">>

(***************************************************************************)
(* Properties of the virtual camera and the frame hand-off                 *)
(***************************************************************************)

\* FrameLoop is inside PushFrame
InPushFrame == vcPc \in {"header", "pixels", "signal"}

\* the frames FrameLoop took from the channel and PushFrame is done with
FramesHandedOver ==
  IF InPushFrame THEN SubSeq(poppedSeq, 1, Len(poppedSeq) - 1) ELSE poppedSeq

\* the region holds the whole of frame f
RegionHolds(f) == region.header = HeaderOf(f) /\ region.pixels = PixelsOf(f)

\* C28: for every frame the producer takes from the channel while the
\* shared region exists it writes the header, then the pixels, and only then
\* signals the frame event, exactly once for that frame; the event is never
\* signaled without a preceding complete write.
C28_WriteThenSignalOnce ==
  /\ [](/\ (vcPc = "pixels") => (region.header = HeaderOf(frame[FrameLoop]))
        /\ (vcPc = "signal") => RegionHolds(frame[FrameLoop])
        /\ signals = FramesHandedOver)
  /\ [][(signals' # signals) =>
          (/\ RegionHolds(frame[FrameLoop])
           /\ signals' = Append(signals, frame[FrameLoop]))]_vars

\* two frames have gone through PushFrame and the event was signaled for each
C28_Witness == Len(signals) = 2 /\ vcPc = "check" /\ regionExists

\* C29: the frame channel is drained when a relay session ends: after
\* Application::Disconnect returns the channel is empty, and no frame pushed
\* during one session is popped and presented during a later session.
C29_ChannelDrainedAtSessionEnd ==
  /\ (apPc = "idle" /\ ~connected /\ session > 0) => (m_frames = <<>>)
  /\ staleFrames = {}

\* C30: the hand-off has no guard against torn reads: no store of PushFrame
\* into the region waits for the filter and no load of the filter's copy
\* waits for the producer, so that the filter can deliver a buffer whose
\* pixels come partly from one frame and partly from the next.
C30_NoGuardAgainstTornReads ==
  /\ (vcPc = "header") => ENABLED PushFrameHeader
  /\ (vcPc = "pixels") => ENABLED PushFramePixels
  /\ (ftPc = "copy") => ENABLED FilterCopy

\* the filter has delivered a buffer that begins with pixels of one frame
\* and ends with pixels of the next
C30_Witness ==
  /\ ftPc = "idle"
  /\ \E k \in 1..(Len(ftOut) - 1) : ftOut[k + 1] = ftOut[k] + 1

\* the stream is up and ReadFrame has taken every byte of it
StreamConsumed == wireOpen /\ wire = <<>> /\ arrived = <<>> /\ rfPc = "idle"

\* the payload of the frame of Followings
FollowingPayload == <<9>>

\* the messages a stream carries: the payloads of its frames that are not
\* empty, in stream order
MessagesOf(f) ==
  (IF f.payload # <<>> THEN <<f.payload>> ELSE <<>>)
    \o (IF f.following # <<>> THEN <<FollowingPayload>> ELSE <<>>)

\* C33: the decoder's result does not depend on how the transport splits a
\* frame's bytes into reads: however the header, the extended length and
\* the payload of an unmasked frame arrive, once the whole stream has been
\* read the handler has been given the payload of the frame and then the
\* payload of the frame that follows it, and nothing else.
C33_SplitReadsDecoded ==
  (/\ sentFrame.origin = "server"
   /\ ~sentFrame.announced.wide
   /\ StreamConsumed)
    => /\ \A i \in 1..Len(handled) : ReceivedAll(handled[i])
       /\ [i \in 1..Len(handled) |-> handled[i].bytes] = MessagesOf(sentFrame)

(***************************************************************************)
(* Properties of SimpleReceiver                                            *)
(***************************************************************************)

\* the value of a 4-byte little-endian length header, when it is below 2^24
HeaderValue(h) == h[1] + 256 * h[2] + 65536 * h[3]

\* a length header that is neither 0 nor greater than 10*1024*1024
HeaderOk(h) == h[4] = 0 /\ HeaderValue(h) >= 1 /\ HeaderValue(h) <= 10485760

\* s begins with a whole record of a valid size
WholeRecord(s) ==
  /\ Len(s) >= 4
  /\ HeaderOk(SubSeq(s, 1, 4))
  /\ Len(s) >= 4 + HeaderValue(SubSeq(s, 1, 4))

\* s without its first record
AfterRecord(s) == SubSeq(s, 5 + HeaderValue(SubSeq(s, 1, 4)), Len(s))

RECURSIVE CompleteRecords(_)
\* the number of whole valid records s begins with
CompleteRecords(s) ==
  IF WholeRecord(s) THEN 1 + CompleteRecords(AfterRecord(s)) ELSE 0

RECURSIVE ReadLimit(_)
\* the number of bytes of s up to the end of its first rejected header, or
\* all of s when it has none
ReadLimit(s) ==
  IF WholeRecord(s)
    THEN 4 + HeaderValue(SubSeq(s, 1, 4)) + ReadLimit(AfterRecord(s))
  ELSE IF Len(s) >= 4 /\ ~HeaderOk(SubSeq(s, 1, 4)) THEN 4
  ELSE Len(s)

RECURSIVE RejectedHeader(_)
\* the whole valid records s begins with are followed by a header that is
\* 0 or greater than 10*1024*1024
RejectedHeader(s) ==
  IF WholeRecord(s) THEN RejectedHeader(AfterRecord(s))
  ELSE Len(s) >= 4 /\ ~HeaderOk(SubSeq(s, 1, 4))

\* the bytes of connection i the receive loop has read
Consumed(i) == Len(conn[i].sent) - Len(conn[i].wire) - Len(conn[i].inbox)

\* the Push calls made for records of connection i
PushesOf(i) == SelectSeq(srPushed, LAMBDA e : e.socket = conn[i].socket)

\* the number of Disconnected callbacks receive thread t has made
DisconnectedBy(t) ==
  Cardinality({k \in 1..Len(srLog) :
                 srLog[k].by = ReceiveThread(t) /\ srLog[k].state = "Disconnected"})

\* C34: in the receive loop a length header that is 0 or greater than
\* 10*1024*1024, or a short read of header or body, ends the loop without
\* a frame being pushed for that record: nothing is read after a rejected
\* header, the loop is left once it was read, and frames are pushed for
\* whole valid records only; the Disconnected callback is made exactly
\* once when the loop ends and not before.
C34_BadRecordEndsLoop ==
  \A t \in Loops :
    /\ Consumed(t) <= ReadLimit(conn[t].sent)
    /\ Len(PushesOf(t)) <= CompleteRecords(conn[t].sent)
    /\ (RejectedHeader(conn[t].sent) /\ Consumed(t) = ReadLimit(conn[t].sent))
         => rx[t].pc \in {"exact", "callback", "done"}
    /\ DisconnectedBy(t) = IF rx[t].pc = "done" THEN 1 ELSE 0

\* a receive loop has ended at a zero header that followed a record
C34_Witness ==
  \E t \in Loops :
    /\ rx[t].pc = "done"
    /\ conn[t].sent = <<1, 0, 0, 0, 7, 0, 0, 0, 0>>
    /\ Len(PushesOf(t)) = 1
    /\ DisconnectedBy(t) = 1

\* the whole valid records among the bytes of connection i that were read
RecordsRead(i) == CompleteRecords(SubSeq(conn[i].sent, 1, Consumed(i)))

\* C35: while SimpleReceiver runs, each completely received record of a
\* valid size produces exactly one Push into the frame channel, in arrival
\* order, and a record that is not completely received produces none: the
\* k-th Push of a receive loop is made for the k-th record of its stream,
\* with a later frame than the Push before it, and the loop has pushed as
\* many frames as whole valid records were read, the last of them being
\* pushed next when it has just been read.
C35_OnePushPerRecord ==
  \A t \in Loops :
    LET pushes == PushesOf(t)
    IN  /\ \A k \in 1..Len(pushes) : pushes[k].record = k
        /\ \A k \in 1..(Len(pushes) - 1) : pushes[k].frame < pushes[k + 1].frame
        /\ \/ Len(pushes) = RecordsRead(t)
           \/ /\ Len(pushes) = RecordsRead(t) - 1
              /\ rx[t].pc \in {"exact", "push"}
              /\ rx[t].stage = "body"

\* a receive loop has pushed a frame for each of the two records of its
\* stream, the second after the first had been evicted or was still queued
C35_Witness ==
  \E t \in Loops :
    /\ conn[t].sent = <<1, 0, 0, 0, 7, 1, 0, 0, 0, 8>>
    /\ Len(PushesOf(t)) = 2
    /\ rx[t].pc = "done"
    /\ m_frames = <<PushesOf(t)[2].frame>>

\* SimpleReceiver::IsConnected()
IsConnected == receiver.m_clientSocket # INVALID_SOCKET

\* the position in srLog of the n-th callback with this state made by
\* thread `by`, or 0 when there is none
CallbackAt(state, by, n) ==
  LET at == {k \in 1..Len(srLog) :
               /\ srLog[k].state = state /\ srLog[k].by = by
               /\ Cardinality({j \in 1..k : srLog[j].state = state
                                            /\ srLog[j].by = by}) = n}
  IN  IF at = {} THEN 0 ELSE CHOOSE k \in at : TRUE

\* C36: SimpleReceiver has at most one receive loop alive at any time: when
\* the Connected callback fires for a new client and its receive loop is
\* started, every receive loop started before has made its Disconnected
\* callback and ended and the socket of every earlier client is closed;
\* a receive thread object is never overwritten while joinable.
C36_OneReceiveLoop ==
  /\ Cardinality(LiveLoops) <= 1
  /\ ~srTerminated
  /\ \A t \in Loops : \A u \in 1..(t - 1) :
       /\ CallbackAt("Disconnected", ReceiveThread(u), 1) # 0
       /\ CallbackAt("Disconnected", ReceiveThread(u), 1)
            < CallbackAt("Connected", AcceptThread, t)
  /\ acceptPc = "start" =>
       \A i \in 1..Len(conn) : conn[i].socket # client => conn[i].socket \notin srOpen

\* Stop has returned and Start was not called since
Stopped ==
  /\ srPc = "idle"
  /\ ~receiver.m_running
  /\ \E k \in 1..Len(srLog) :
       srLog[k].state = "Disconnected" /\ srLog[k].by = CallerThread

\* C37: after Stop returns, under every interleaving of Stop with the
\* accept loop, neither the accept thread nor a receive thread is running,
\* no listen or client socket remains open, IsConnected() is false and no
\* frame is being pushed.
C37_StopStopsEverything ==
  Stopped =>
    /\ acceptPc = "none"
    /\ LiveLoops = {}
    /\ srOpen = {}
    /\ ~IsConnected
    /\ pc[ReceiveLoop] = "idle"

\* C38: IsConnected() is true only while a client's receive loop is alive:
\* once the receive loop of the last client has ended because the client
\* closed the connection or sent an invalid record, IsConnected() is false.
C38_ConnectedOnlyWhileLoopAlive ==
  \A t \in Loops :
    (/\ rx[t].pc = "done"
     /\ receiver.m_receiveThread = t
     /\ acceptPc \in {"check", "select"})
      => ~IsConnected

(***************************************************************************)
(* Properties of the application's operations and of VirtualCamera's life  *)
(* cycle                                                                   *)
(***************************************************************************)

\* the frame loop runs: m_running is set and the FrameLoop thread is alive
FrameLoopRuns == vcRunning /\ vcPc \notin {"none", "exit"}

\* the frame loop is stopped: m_running is clear and the thread is joined
FrameLoopStopped == ~vcRunning /\ vcPc = "none"

\* the UI thread is inside VirtualCamera::Stop, at the join
Joining == todo # <<>> /\ Head(todo).op = "join"

\* C32: after the application has handled a state-change notification the
\* frame loop runs if and only if the notified state is Connected, given
\* that the creation of the shared memory succeeded; in particular it is
\* stopped after a failed Connect (Error) and after Disconnect
\* (Disconnected), and it never runs before the first notification.
C32_FrameLoopFollowsState ==
  ~Joining =>
    /\ notice = "Connected" => (started = "ok" => FrameLoopRuns)
    /\ notice # "Connected" => FrameLoopStopped
    /\ (todo = <<>> /\ ~hasClient) => FrameLoopStopped

\* a Connect failed after a session that had been connected: the Error
\* notification was handled and the operation is over
C32_Witness ==
  /\ notice = "Error"
  /\ todo = <<>>
  /\ started = "ok"
  /\ FrameLoopStopped

\* C39: VirtualCamera::Stop always returns: once m_running is cleared the
\* frame loop begins at most one more Pop, a Pop that waits never waits
\* longer than its timeout, and the join that Stop waits in completes.
C39_StopReturns ==
  /\ [](stopPops <= 1)
  /\ [](pc[FrameLoop] = "waiting" => elapsed[FrameLoop] <= timeoutMs[FrameLoop])
  /\ (Joining ~> ~Joining)

\* Stop has returned after the frame loop began one more Pop with
\* m_running clear, and that Pop timed out on the empty channel
C39_Witness ==
  /\ todo = <<>>
  /\ stopPops = 1
  /\ FrameLoopStopped
  /\ ret[FrameLoop] = "pop_false"

\* the handles the members of VirtualCamera hold
HeldHandles ==
  {handles.m_sharedMemoryHandle, handles.m_sharedMemoryPtr, handles.m_frameEvent}
    \ {NoHandle}

\* C40: over any sequence of Start and Stop there is at most one
\* frame-loop thread (m_thread is never assigned while joinable, and
\* m_running is set only while the thread lives); a Start whose
\* CreateSharedMemory fails leaves the camera not running; every mapping,
\* view and event a Start created is released by destruction, no handle
\* being overwritten while open.
C40_OneThreadNoLeak ==
  /\ ~vcTerminated
  /\ vcRunning => vcPc # "none"
  /\ started = "failed" => FrameLoopStopped
  /\ openHandles \subseteq HeldHandles
  /\ destroyed => openHandles = {}

(***************************************************************************)
(* Properties of Application::OnSignalingMessage                           *)
(***************************************************************************)

\* C31: each offer with an sdp field that a session delivers to the
\* application causes exactly one answer frame, written to the transport
\* of the session that delivered it, whatever Application::Connect and
\* Application::Disconnect do meanwhile on the UI thread; a message of
\* another type, or an offer without sdp, causes no answer.
C31_OneAnswerPerOffer ==
  \A k \in 1..Len(offers) :
    LET o == offers[k]
    IN  /\ Len(o.answers) <= 1
        /\ \A i \in 1..Len(o.answers) : o.answers[i] = o.session
        /\ o.handled => Len(o.answers) = IF Answers(o.message) THEN 1 ELSE 0

====
